---- MODULE Spec2Model ----
(***************************************************************************)
(* Hand-cursor pipeline of the Melody Canvas demos:                        *)
(*   - the gesture hysteresis machine (jason/js/gesture.js, identical in   *)
(*     melody-canvas/js/classifier.js),                                    *)
(*   - the 4-corner homography calibrator with its localStorage slot       *)
(*     (jason/js/synth.js).                                                *)
(* Numbers are exact rationals <<num, den>>; finger distances are          *)
(* integers in thousandths.                                                *)
(***************************************************************************)
EXTENDS Integers, Sequences, FiniteSets, TLC

VARIABLES
  \* ---- gesture.js module state
  currentGesture, candidateGesture, candidateCount, releaseCount,
  \* ---- observers of the frame stream fed to updateGesture
  lastMatched,    \* "init" | "nohand" | per-frame match of the latest frame
  prevGesture,    \* getCurrentGesture() before the latest frame
  sameRun,        \* length of the latest run of landmark frames with equal match
  pristine,       \* every frame since construction belongs to that run
  missRun,        \* latest run of landmark frames mismatching the confirmed gesture
  \* ---- synth.js module state (hand cursor and calibration)
  calibPoints, calibQuad, homographyMat, calibMode, onCalibChange,
  cursorEl, lastLandmarks, cursorActive,
  \* ---- the browser: localStorage item STORAGE_KEY, and whether
  \* localStorage is usable in this session
  slot, storageAvail,
  \* ---- observers of the calibrator
  notified,       \* notifications delivered by the latest handler
  lastOp,         \* the latest handler that ran
  clickConsumed,  \* the latest preview click arrived in collecting mode
  clicks,         \* video-space points consumed since startCalibration()
  lastCalOp,      \* the latest confirmation or clear, over all sessions
  lastMapMode,    \* how the latest detection with a hand was mapped
  sinceClear,     \* clearCalibration() ran and nothing was confirmed since
  raised,         \* an exception left the latest handler
  \* ---- synth.js module state (filters, predictor, cursor)
  tick,           \* performance.now() is Clock[tick]
  filterX, filterY, pred, cursorNorm, activeLayer,
  \* ---- observers of the cursor pipeline
  lastDet,        \* the latest detection with a hand: raw and filtered position
  movedBefore,    \* the velocity was not zero when tracking was last lost
  predObs,        \* direct calls of the predictor: latest answer, update history
  filtObs,        \* direct calls of filterX: latest argument and answer
  solved,         \* the latest direct call of _computeHomography
  cls             \* melody-canvas gesture.js: templates, templatesLoaded, latest frame

gvars == <<currentGesture, candidateGesture, candidateCount, releaseCount,
           lastMatched, prevGesture, sameRun, pristine, missRun>>

cvars == <<calibPoints, calibQuad, homographyMat, calibMode, onCalibChange,
           cursorEl, lastLandmarks, cursorActive, slot, storageAvail,
           notified, lastOp, clickConsumed, clicks, lastCalOp, lastMapMode,
           sinceClear, raised>>

kvars == <<tick, filterX, filterY, pred, cursorNorm, activeLayer, lastDet,
           movedBefore>>

uvars == <<predObs, filtObs, solved, cls>>

vars == <<gvars, cvars, kvars, uvars>>

\* JavaScript null, as a gesture name
NULL == "null"
\* JavaScript null, where the other values are objects
NullObj == [t |-> "null"]

(***************************************************************************)
(* Bounds                                                                  *)
(***************************************************************************)
\* cap of candidateCount / releaseCount (the code lets them grow for ever)
MaxCount == 20
\* saturation of the observers sameRun and missRun
MaxRun == 19
\* resolution of the doubles of the cursor pipeline
Quantum == 256
\* calls of a filter with one and the same value that are followed
MaxFeeds == 10
\* frames the hysteresis counts while the stage choice is exercised
MaxStaged == 5

(***************************************************************************)
(* gesture.js                                                              *)
(***************************************************************************)
CONFIRM_FRAMES == 4
RELEASE_FRAMES == 18

\* thresholds on the extension ratio, in hundredths
EXTENDED == 118
CURLED == 122

Labels == {"erase", "draw", "pointing"}

\* One finger as seen from the wrist: tip distance and MCP distance, in
\* thousandths of the normalised frame.
FingerCurled   == [tip |-> 100, mcp |-> 100]
FingerDeadZone == [tip |-> 120, mcp |-> 100]
FingerExtended == [tip |-> 130, mcp |-> 100]
FingerTiny     == [tip |-> 130, mcp |-> 1]

\* Landmark frames offered to updateGesture: <<index, middle, ring, pinky>>
Poses ==
  { <<FingerExtended, FingerExtended, FingerExtended, FingerExtended>>,
    <<FingerExtended, FingerExtended, FingerCurled,   FingerCurled>>,
    <<FingerExtended, FingerCurled,   FingerCurled,   FingerCurled>>,
    <<FingerCurled,   FingerCurled,   FingerCurled,   FingerCurled>>,
    <<FingerDeadZone, FingerDeadZone, FingerDeadZone, FingerDeadZone>>,
    <<FingerExtended, FingerDeadZone, FingerCurled,   FingerCurled>>,
    <<FingerTiny,     FingerCurled,   FingerCurled,   FingerCurled>>,
    <<FingerExtended, FingerExtended, FingerExtended, FingerCurled>> }

\* fingerExtension(lm, finger) > thr / < thr, with thr in hundredths:
\* ratio = mcpDist > 0.001 ? tipDist / mcpDist : 0
ExtAbove(f, thr) == IF f.mcp > 1 THEN f.tip * 100 > thr * f.mcp ELSE FALSE
ExtBelow(f, thr) == IF f.mcp > 1 THEN f.tip * 100 < thr * f.mcp ELSE TRUE

\* the decision list of updateGesture (geometry)
Geometry(lm) ==
  LET iExt == ExtAbove(lm[1], EXTENDED)
      mExt == ExtAbove(lm[2], EXTENDED)
      rExt == ExtAbove(lm[3], EXTENDED)
      pExt == ExtAbove(lm[4], EXTENDED)
      mCrl == ExtBelow(lm[2], CURLED)
      rCrl == ExtBelow(lm[3], CURLED)
      pCrl == ExtBelow(lm[4], CURLED)
  IN  IF iExt /\ mExt /\ rExt /\ pExt THEN "erase"
      ELSE IF iExt /\ mExt /\ rCrl /\ pCrl THEN "draw"
      ELSE IF iExt /\ mCrl /\ rCrl /\ pCrl THEN "pointing"
      ELSE NULL

\* Mutant: a null name is ignored.
SetGestureKeepsOnNull(cur, name) == IF name # cur /\ name # NULL THEN name ELSE cur

\* _setGesture(name)
SetGesture(cur, name) == IF name # cur THEN name ELSE cur

\* Mutant: confirmation needs one frame more.
NoGestureBranchLate(g, matched) ==
  IF matched = g.cand
  THEN IF g.cc + 1 > CONFIRM_FRAMES
       THEN [cur |-> SetGesture(g.cur, matched), cand |-> g.cand,
             cc |-> g.cc + 1, rc |-> 0]
       ELSE [g EXCEPT !.cc = g.cc + 1]
  ELSE [g EXCEPT !.cand = matched, !.cc = 1]

\* updateGesture, branch "no current gesture", on the record
\* g = [cur, cand, cc, rc] of the four module variables.
NoGestureBranch(g, matched) ==
  IF matched = g.cand
  THEN IF g.cc + 1 >= CONFIRM_FRAMES
       THEN [cur |-> SetGesture(g.cur, matched), cand |-> g.cand,
             cc |-> g.cc + 1, rc |-> 0]
       ELSE [g EXCEPT !.cc = g.cc + 1]
  ELSE [g EXCEPT !.cand = matched, !.cc = 1]

\* Mutant: the release window is as short as the confirm window.
ConfirmedBranchEagerRelease(g, matched) ==
  IF matched = g.cur
  THEN [g EXCEPT !.rc = 0, !.cand = matched, !.cc = CONFIRM_FRAMES]
  ELSE LET rc1   == g.rc + 1
           cand1 == IF matched = g.cand THEN g.cand ELSE matched
           cc1   == IF matched = g.cand THEN g.cc + 1 ELSE 1
       IN  IF rc1 >= CONFIRM_FRAMES
           THEN IF cand1 # NULL /\ cc1 >= CONFIRM_FRAMES
                THEN [cur |-> SetGesture(g.cur, cand1), cand |-> cand1,
                      cc |-> cc1, rc |-> 0]
                ELSE IF cand1 = NULL
                THEN [cur |-> SetGesture(g.cur, NULL), cand |-> cand1,
                      cc |-> 0, rc |-> 0]
                ELSE [cur |-> g.cur, cand |-> cand1, cc |-> cc1, rc |-> rc1]
           ELSE [cur |-> g.cur, cand |-> cand1, cc |-> cc1, rc |-> rc1]

\* Mutant: a new label takes over when the release window expires, however
\* few frames it has been seen.
ConfirmedBranchEagerSwitch(g, matched) ==
  IF matched = g.cur
  THEN [g EXCEPT !.rc = 0, !.cand = matched, !.cc = CONFIRM_FRAMES]
  ELSE LET rc1   == g.rc + 1
           cand1 == IF matched = g.cand THEN g.cand ELSE matched
           cc1   == IF matched = g.cand THEN g.cc + 1 ELSE 1
       IN  IF rc1 >= RELEASE_FRAMES
           THEN IF cand1 # NULL
                THEN [cur |-> SetGesture(g.cur, cand1), cand |-> cand1,
                      cc |-> cc1, rc |-> 0]
                ELSE [cur |-> SetGesture(g.cur, NULL), cand |-> cand1,
                      cc |-> 0, rc |-> 0]
           ELSE [cur |-> g.cur, cand |-> cand1, cc |-> cc1, rc |-> rc1]

\* updateGesture, branch "a gesture is confirmed"
ConfirmedBranch(g, matched) ==
  IF matched = g.cur
  THEN [g EXCEPT !.rc = 0, !.cand = matched, !.cc = CONFIRM_FRAMES]
  ELSE LET rc1   == g.rc + 1
           cand1 == IF matched = g.cand THEN g.cand ELSE matched
           cc1   == IF matched = g.cand THEN g.cc + 1 ELSE 1
       IN  IF rc1 >= RELEASE_FRAMES
           THEN IF cand1 # NULL /\ cc1 >= CONFIRM_FRAMES
                THEN [cur |-> SetGesture(g.cur, cand1), cand |-> cand1,
                      cc |-> cc1, rc |-> 0]
                ELSE IF cand1 = NULL
                THEN [cur |-> SetGesture(g.cur, NULL), cand |-> cand1,
                      cc |-> 0, rc |-> 0]
                ELSE [cur |-> g.cur, cand |-> cand1, cc |-> cc1, rc |-> rc1]
           ELSE [cur |-> g.cur, cand |-> cand1, cc |-> cc1, rc |-> rc1]

\* The hysteresis block of updateGesture
Hysteresis(g, matched) ==
  IF g.cur # NULL THEN ConfirmedBranch(g, matched)
                  ELSE NoGestureBranch(g, matched)

GestureState ==
  [cur |-> currentGesture, cand |-> candidateGesture,
   cc |-> candidateCount, rc |-> releaseCount]

Sat(n) == IF n > MaxRun THEN MaxRun ELSE n

GestureInit ==
  /\ currentGesture = NULL
  /\ candidateGesture = NULL
  /\ candidateCount = 0
  /\ releaseCount = 0
  /\ lastMatched = "init"
  /\ prevGesture = NULL
  /\ sameRun = 0
  /\ pristine = TRUE
  /\ missRun = 0

\* updateGesture(null): no hand in this frame
UpdateGestureNoHand ==
  /\ currentGesture' = SetGesture(currentGesture, NULL)
  /\ UNCHANGED <<candidateGesture, candidateCount, releaseCount>>
  /\ lastMatched' = "nohand"
  /\ prevGesture' = currentGesture
  /\ sameRun' = 0
  /\ pristine' = FALSE
  /\ missRun' = 0

\* updateGesture(landmarks)
UpdateGesture ==
  \E lm \in Poses :
    LET matched == Geometry(lm)
        g1      == Hysteresis(GestureState, matched)
    IN  /\ candidateCount < MaxCount
        /\ releaseCount < MaxCount
        /\ currentGesture' = g1.cur
        /\ candidateGesture' = g1.cand
        /\ candidateCount' = g1.cc
        /\ releaseCount' = g1.rc
        /\ lastMatched' = matched
        /\ prevGesture' = currentGesture
        /\ sameRun' = IF lastMatched = matched THEN Sat(sameRun + 1) ELSE 1
        /\ pristine' = (pristine /\ lastMatched \in {"init", matched})
        /\ missRun' = IF currentGesture = NULL \/ matched = currentGesture
                      THEN 0
                      ELSE IF prevGesture = currentGesture
                           THEN Sat(missRun + 1) ELSE 1

\* updateGesture(landmarks) on an unending stream of frames: the counters
\* are held at MaxCount once they reach it (the code compares them with
\* CONFIRM_FRAMES and RELEASE_FRAMES only, both below MaxCount)
UpdateGestureForever ==
  \E lm \in Poses :
    \E g1 \in {Hysteresis(GestureState, Geometry(lm))} :
      /\ currentGesture' = g1.cur
      /\ candidateGesture' = g1.cand
      /\ candidateCount' = (IF g1.cc > MaxCount THEN MaxCount ELSE g1.cc)
      /\ releaseCount' = (IF g1.rc > MaxCount THEN MaxCount ELSE g1.rc)
      /\ lastMatched' = Geometry(lm)
      /\ prevGesture' = currentGesture
      /\ sameRun' = IF lastMatched = Geometry(lm) THEN Sat(sameRun + 1) ELSE 1
      /\ pristine' = (pristine /\ lastMatched \in {"init", Geometry(lm)})
      /\ missRun' = IF currentGesture = NULL \/ Geometry(lm) = currentGesture
                    THEN 0
                    ELSE IF prevGesture = currentGesture
                         THEN Sat(missRun + 1) ELSE 1

\* clearGesture()
ClearGesture ==
  /\ currentGesture' = NULL
  /\ candidateGesture' = NULL
  /\ candidateCount' = 0
  /\ releaseCount' = 0
  /\ lastMatched' = "init"
  /\ prevGesture' = NULL
  /\ sameRun' = 0
  /\ pristine' = TRUE
  /\ missRun' = 0

(***************************************************************************)
(* melody-canvas gesture.js: template stage, geometry stage, stage choice  *)
(***************************************************************************)
\* A frame holds the landmarks the two stages read, in the order wrist
\* (lm[0]), then MCP and tip of index (5, 8), middle (9, 12), ring (13, 16)
\* and pinky (17, 20); a landmark is <<x, y>> in hundredths of the frame
\* (z is absent, read as 0).
\* _F: positions of MCP and tip of the four fingers in a frame
F_ == << [mcp |-> 2, tip |-> 3], [mcp |-> 4, tip |-> 5],
         [mcp |-> 6, tip |-> 7], [mcp |-> 8, tip |-> 9] >>
\* position of lm[9], the middle MCP
MiddleMcp == 4

\* d3(a, b) squared
Dist2(a, b) == (a[1] - b[1]) * (a[1] - b[1]) + (a[2] - b[2]) * (a[2] - b[2])

\* a / b > c / d for a, c >= 0 and b, d > 0, without forming the products
RECURSIVE FracGt(_, _, _, _)
FracGt(a, b, c, d) ==
  IF a \div b # c \div d THEN a \div b > c \div d
  ELSE IF a % b = 0 THEN FALSE
  ELSE IF c % d = 0 THEN TRUE
  ELSE FracGt(d, c % d, b, a % b)

\* _ext(lm, f) > thr and _ext(lm, f) < thr for a threshold of thr hundredths:
\* the ratio is 0 unless mcpDist > 1e-4 (less than one unit of the frame)
ExtOver(lm, f, thr) ==
  /\ Dist2(lm[f.mcp], lm[1]) > 0
  /\ FracGt(Dist2(lm[f.tip], lm[1]), Dist2(lm[f.mcp], lm[1]), thr * thr, 10000)
ExtUnder(lm, f, thr) ==
  \/ Dist2(lm[f.mcp], lm[1]) = 0
  \/ FracGt(thr * thr, 10000, Dist2(lm[f.tip], lm[1]), Dist2(lm[f.mcp], lm[1]))

\* Mutant: the 'draw' rule is tried before the 'erase' rule.
GeometryOfFrameDrawFirst(lm) ==
  LET iE == ExtOver(lm, F_[1], EXTENDED)
      mE == ExtOver(lm, F_[2], EXTENDED)
      rE == ExtOver(lm, F_[3], EXTENDED)
      pE == ExtOver(lm, F_[4], EXTENDED)
      mC == ExtUnder(lm, F_[2], CURLED)
      rC == ExtUnder(lm, F_[3], CURLED)
      pC == ExtUnder(lm, F_[4], CURLED)
  IN  IF iE /\ mE /\ rC /\ pC THEN "draw"
      ELSE IF iE /\ mE /\ rE /\ pE THEN "erase"
      ELSE IF iE /\ mC /\ rC /\ pC THEN "pointing"
      ELSE NULL

\* _geometry(lm)
GeometryOfFrame(lm) ==
  LET iE == ExtOver(lm, F_[1], EXTENDED)
      mE == ExtOver(lm, F_[2], EXTENDED)
      rE == ExtOver(lm, F_[3], EXTENDED)
      pE == ExtOver(lm, F_[4], EXTENDED)
      mC == ExtUnder(lm, F_[2], CURLED)
      rC == ExtUnder(lm, F_[3], CURLED)
      pC == ExtUnder(lm, F_[4], CURLED)
  IN  IF iE /\ mE /\ rE /\ pE THEN "erase"
      ELSE IF iE /\ mE /\ rC /\ pC THEN "draw"
      ELSE IF iE /\ mC /\ rC /\ pC THEN "pointing"
      ELSE NULL

\* _normalise(lm): null when the wrist-to-middle-MCP distance is below 1e-6,
\* else the landmarks seen from the wrist. The division by the scale is left
\* out: _cosine, the only reader, gives the same for a vector and its
\* positive multiples.
Normalise(lm) ==
  IF Dist2(lm[MiddleMcp], lm[1]) = 0 THEN NullObj
  ELSE [t |-> "vec",
        v |-> [i \in 1..Len(lm) |-> <<lm[i][1] - lm[1][1], lm[i][2] - lm[1][2]>>]]

RECURSIVE SumTo(_, _)
SumTo(f, n) == IF n = 0 THEN 0 ELSE f[n] + SumTo(f, n - 1)
\* the sums of _cosine(a, b): dot, ma, mb
Dot(a, b) == SumTo([i \in 1..Len(a) |-> a[i][1] * b[i][1] + a[i][2] * b[i][2]], Len(a))

\* A score is held as <<n, d>> standing for n / d = score^2 * ma, with ma the
\* squared length of the frame's vector, the same for every score of a frame;
\* scores are >= 0 where they are compared. _cosine gives 0 when a length is
\* (nearly) 0 and is below every best when the dot product is negative.
ZeroScore == <<0, 1>>
Cosine(a, b) ==
  IF Dot(a, a) = 0 \/ Dot(b, b) = 0 \/ Dot(a, b) <= 0 THEN ZeroScore
  ELSE <<Dot(a, b) * Dot(a, b), Dot(b, b)>>
ScoreGt(s, r) == FracGt(s[1], s[2], r[1], r[2])

\* _bestScore(vec, name) over the samples ts of the class
RECURSIVE BestScore(_, _, _)
BestScore(vec, ts, n) ==
  IF n = 0 THEN ZeroScore
  ELSE LET best == BestScore(vec, ts, n - 1)
           sc   == Cosine(vec, ts[n])
       IN  IF ScoreGt(sc, best) THEN sc ELSE best

\* MATCH_THRESHOLD = 0.88 = 22/25, as a score of a frame whose vector has
\* squared length ma
MATCH_THRESHOLD(ma) == <<484 * ma, 625>>

\* the loop over Object.entries(scores) of updateGesture: the name kept and
\* its score after the first n classes
RECURSIVE BestClass(_, _, _)
BestClass(vec, tpl, n) ==
  IF n = 0 THEN [bestName |-> NULL, bestScore |-> MATCH_THRESHOLD(Dot(vec, vec))]
  ELSE LET b  == BestClass(vec, tpl, n - 1)
           sc == BestScore(vec, tpl[n].samples, Len(tpl[n].samples))
       IN  IF ScoreGt(sc, b.bestScore)
           THEN [bestName |-> tpl[n].name, bestScore |-> sc]
           ELSE b

\* Mutant: the geometry stage is not consulted once templates are loaded.
MatchFrameNoFallback(tpl, loaded, lm) ==
  IF loaded
  THEN IF Normalise(lm) # NullObj
       THEN [matched |-> BestClass(Normalise(lm).v, tpl, Len(tpl)).bestName,
             stage |-> 1]
       ELSE [matched |-> NULL, stage |-> 1]
  ELSE [matched |-> GeometryOfFrame(lm), stage |-> 2]

\* updateGesture(lm) up to the hysteresis: the per-frame match and the stage
\* that gave it
MatchFrame(tpl, loaded, lm) ==
  IF loaded
  THEN LET vec == Normalise(lm)
           m1  == IF vec # NullObj
                  THEN BestClass(vec.v, tpl, Len(tpl)).bestName ELSE NULL
       IN  IF m1 # NULL THEN [matched |-> m1, stage |-> 1]
           ELSE [matched |-> GeometryOfFrame(lm), stage |-> 2]
  ELSE [matched |-> GeometryOfFrame(lm), stage |-> 2]

(***************************************************************************)
(* Exact rational arithmetic: a number is <<n, d>> with d > 0, in lowest   *)
(* terms.                                                                  *)
(***************************************************************************)
\* Operands are bound once, as the code evaluates each expression once.
Only(S) == CHOOSE v \in S : TRUE

Abs(n) == IF n < 0 THEN -n ELSE n

RECURSIVE Gcd(_, _)
Gcd(a, b) ==
  Only({ IF y = 0 THEN x ELSE Gcd(y, x % y) : x \in {a}, y \in {b} })

RNorm(n, d) ==
  Only({ Only({ IF y < 0 THEN <<(-x) \div g, (-y) \div g>>
                ELSE <<x \div g, y \div g>> :
                g \in {Gcd(Abs(x), Abs(y))} }) :
         x \in {n}, y \in {d} })

R(n, d) == RNorm(n, d)
RZero == <<0, 1>>
ROne == <<1, 1>>
RNeg(a) == Only({ <<-x[1], x[2]>> : x \in {a} })
RAdd(a, b) ==
  Only({ Only({ RNorm(x[1] * (y[2] \div g) + y[1] * (x[2] \div g),
                      (x[2] \div g) * y[2]) :
                g \in {Gcd(x[2], y[2])} }) :
         x \in {a}, y \in {b} })
RSub(a, b) == RAdd(a, RNeg(b))
RMul(a, b) ==
  Only({ Only({ RNorm((x[1] \div h1) * (y[1] \div h2),
                      (x[2] \div h2) * (y[2] \div h1)) :
                h1 \in {IF Gcd(Abs(x[1]), y[2]) = 0 THEN 1
                        ELSE Gcd(Abs(x[1]), y[2])},
                h2 \in {IF Gcd(Abs(y[1]), x[2]) = 0 THEN 1
                        ELSE Gcd(Abs(y[1]), x[2])} }) :
         x \in {a}, y \in {b} })
RInv(a) == Only({ RNorm(x[2], x[1]) : x \in {a} })
RDiv(a, b) == RMul(a, RInv(b))
RAbs(a) == Only({ <<Abs(x[1]), x[2]>> : x \in {a} })
RLt(a, b) == \E x \in {a}, y \in {b} : x[1] * y[2] < y[1] * x[2]
RLe(a, b) == \E x \in {a}, y \in {b} : x[1] * y[2] <= y[1] * x[2]

\* Math.abs(a) < 1e-12, i.e. |n| * 10^12 < d, without leaving 32 bits
AbsBelow1e12(a) ==
  \E x \in {a} : Abs(x[1]) <= ((x[2] - 1) \div 1000000) \div 1000000

\* A double of the cursor pipeline is held at a resolution of 1/Quantum;
\* NaN is <<0, 0>>.
NaN == <<0, 0>>

\* <<(r * k) \div d, (r * k) % d>> for 0 <= r < d, by doubling, so that no
\* intermediate value leaves 32 bits
RECURSIVE MulDiv(_, _, _)
MulDiv(r, k, d) ==
  IF k = 0 THEN <<0, 0>>
  ELSE Only({ Only({ IF k % 2 = 0 THEN t
                     ELSE IF t[2] >= d - r THEN <<t[1] + 1, t[2] - (d - r)>>
                     ELSE <<t[1], t[2] + r>> :
                     t \in { IF h[2] >= d - h[2]
                             THEN <<2 * h[1] + 1, h[2] - (d - h[2])>>
                             ELSE <<2 * h[1], h[2] + h[2]>> } }) :
              h \in {MulDiv(r, k \div 2, d)} })

\* the nearest multiple of 1/Quantum (halves upwards)
Fx(a) ==
  Only({ IF x[2] = 0 THEN x
         ELSE IF x[1] % x[2] < 1000000 /\ x[2] < 1000000000
         THEN RNorm((x[1] \div x[2]) * Quantum
                      + (2 * (x[1] % x[2]) * Quantum + x[2]) \div (2 * x[2]),
                    Quantum)
         ELSE Only({ RNorm((x[1] \div x[2]) * Quantum + qm[1]
                             + (IF qm[2] >= x[2] - qm[2] THEN 1 ELSE 0),
                           Quantum) :
                     qm \in {MulDiv(x[1] % x[2], Quantum, x[2])} }) :
         x \in {a} })

(***************************************************************************)
(* synth.js: homography                                                    *)
(***************************************************************************)
\* CORNER_TARGETS: where each clicked corner maps to, TL TR BR BL
CORNER_TARGETS ==
  << <<RZero, RZero>>, <<ROne, RZero>>, <<ROne, ROne>>, <<RZero, ROne>> >>

\* size of the linear system solved by _gaussElim (b.length)
NSys == 8

\* the two rows of [A | b] that correspondence i contributes
DltRowX(p, d) ==
  << RNeg(p.x), RNeg(p.y), RNeg(ROne), RZero, RZero, RZero,
     RMul(d[1], p.x), RMul(d[1], p.y), RNeg(d[1]) >>
\* Mutant: the y rows aim at the x coordinate of the destination corner.
DltRowYOfX(p, d) ==
  << RZero, RZero, RZero, RNeg(p.x), RNeg(p.y), RNeg(ROne),
     RMul(d[1], p.x), RMul(d[1], p.y), RNeg(d[1]) >>
DltRowY(p, d) ==
  << RZero, RZero, RZero, RNeg(p.x), RNeg(p.y), RNeg(ROne),
     RMul(d[2], p.x), RMul(d[2], p.y), RNeg(d[2]) >>

\* M = A.map((row, i) => [...row, b[i]]) for the system of _computeHomography
DltSystem(quad) ==
  << DltRowX(quad[1], CORNER_TARGETS[1]), DltRowY(quad[1], CORNER_TARGETS[1]),
     DltRowX(quad[2], CORNER_TARGETS[2]), DltRowY(quad[2], CORNER_TARGETS[2]),
     DltRowX(quad[3], CORNER_TARGETS[3]), DltRowY(quad[3], CORNER_TARGETS[3]),
     DltRowX(quad[4], CORNER_TARGETS[4]), DltRowY(quad[4], CORNER_TARGETS[4]) >>

\* partial pivoting: the first row at or below col with the largest |M[row][col]|
PivotRow(M, col) ==
  CHOOSE r \in col..NSys :
    /\ \A s \in col..NSys : RLe(RAbs(M[s][col]), RAbs(M[r][col]))
    /\ \A s \in col..(r - 1) : RLt(RAbs(M[s][col]), RAbs(M[r][col]))

\* M[row][k] -= f * M[col][k] for k = col..n, for one row below col
ReduceEntry(M, col, row, f, k) ==
  IF k < col THEN M[row][k] ELSE RSub(M[row][k], RMul(f, M[col][k]))

ReduceRow(M, col, row) ==
  IF row <= col THEN M[row]
  ELSE Only({ << ReduceEntry(M, col, row, f, 1), ReduceEntry(M, col, row, f, 2),
                 ReduceEntry(M, col, row, f, 3), ReduceEntry(M, col, row, f, 4),
                 ReduceEntry(M, col, row, f, 5), ReduceEntry(M, col, row, f, 6),
                 ReduceEntry(M, col, row, f, 7), ReduceEntry(M, col, row, f, 8),
                 ReduceEntry(M, col, row, f, 9) >> :
              f \in {RDiv(M[row][col], M[col][col])} })

\* the inner elimination loop of _gaussElim over the rows below col
ReduceBelow(M, col) ==
  << ReduceRow(M, col, 1), ReduceRow(M, col, 2), ReduceRow(M, col, 3),
     ReduceRow(M, col, 4), ReduceRow(M, col, 5), ReduceRow(M, col, 6),
     ReduceRow(M, col, 7), ReduceRow(M, col, 8) >>

\* forward elimination of _gaussElim from column col on; NullObj on a pivot
\* of magnitude below 1e-12
RECURSIVE Eliminate(_, _)
Eliminate(M, col) ==
  IF col > NSys THEN [t |-> "matrix", rows |-> M]
  ELSE Only({ IF AbsBelow1e12(Msw[col][col]) THEN NullObj
              ELSE Only({ Eliminate(Mred, col + 1) :
                          Mred \in {ReduceBelow(Msw, col)} }) :
              Msw \in { Only({ [M EXCEPT ![col] = M[maxRow], ![maxRow] = M[col]] :
                               maxRow \in {PivotRow(M, col)} }) } })

\* x[i] -= M[i][j] * x[j] for j = i+1..n
RECURSIVE RowDot(_, _, _, _)
RowDot(M, x, i, j) ==
  IF j > NSys THEN M[i][NSys + 1]
  ELSE RSub(RowDot(M, x, i, j + 1), RMul(M[i][j], x[j]))

\* back substitution of _gaussElim, rows i down to 1
RECURSIVE BackSubstitute(_, _, _)
BackSubstitute(M, x, i) ==
  IF i = 0 THEN x
  ELSE Only({ BackSubstitute(M, x1, i - 1) :
              x1 \in {[x EXCEPT ![i] = RDiv(RowDot(M, x, i, i + 1), M[i][i])]} })

\* _gaussElim(A, b) on the augmented matrix
GaussElim(M) ==
  Only({ IF U = NullObj THEN NullObj
         ELSE [t |-> "f64", items |->
                 BackSubstitute(U.rows,
                    <<RZero, RZero, RZero, RZero, RZero, RZero, RZero, RZero>>,
                    NSys)] :
         U \in {Only({ Eliminate(A, 1) : A \in {M} })} })

\* _computeHomography(quad): the 9 entries row-major, or NullObj when the
\* solve fails; quad is the sequence of the four points
ComputeHomography(quad) ==
  Only({ IF h8 = NullObj THEN NullObj
         ELSE [t |-> "f64", items |-> h8.items \o <<ROne>>] :
         h8 \in {GaussElim(DltSystem(quad))} })

\* IEEE results of a division: <<1,0>> is +Infinity, <<-1,0>> -Infinity,
\* <<0,0>> NaN
IsFinite(a) == a[2] # 0
Sign(n) == IF n > 0 THEN 1 ELSE IF n < 0 THEN -1 ELSE 0
JsDiv(a, b) == IF b[1] = 0 THEN <<Sign(a[1]), 0>> ELSE RDiv(a, b)
JsOneMinus(a) == IF IsFinite(a) THEN RSub(ROne, a) ELSE <<-a[1], 0>>
\* Math.max(0, Math.min(1, a))
JsClamp01(a) ==
  IF ~IsFinite(a) THEN (IF a[1] > 0 THEN ROne ELSE IF a[1] < 0 THEN RZero ELSE a)
  ELSE IF RLt(ROne, a) THEN ROne ELSE IF RLt(a, RZero) THEN RZero ELSE a

\* applyHomography: the projected point before clamping, nx_raw and ny_raw
Project(h, vx, vy) ==
  LET m == h.items
      w == RAdd(RAdd(RMul(m[7], vx), RMul(m[8], vy)), m[9])
  IN  [x |-> JsDiv(RAdd(RAdd(RMul(m[1], vx), RMul(m[2], vy)), m[3]), w),
       y |-> JsDiv(RAdd(RAdd(RMul(m[4], vx), RMul(m[5], vy)), m[6]), w)]

\* Mutant: the quad is tested without the margin.
ApplyHomographyNoMargin(h, vx, vy) ==
  LET m      == h.items
      w      == RAdd(RAdd(RMul(m[7], vx), RMul(m[8], vy)), m[9])
      nx_raw == JsDiv(RAdd(RAdd(RMul(m[1], vx), RMul(m[2], vy)), m[3]), w)
      ny_raw == JsDiv(RAdd(RAdd(RMul(m[4], vx), RMul(m[5], vy)), m[6]), w)
      lo     == RZero
      hi     == ROne
      inside == /\ IsFinite(nx_raw) /\ IsFinite(ny_raw)
                /\ RLe(lo, nx_raw) /\ RLe(nx_raw, hi)
                /\ RLe(lo, ny_raw) /\ RLe(ny_raw, hi)
  IN  [inside |-> inside,
       nx |-> JsClamp01(JsOneMinus(nx_raw)),
       ny |-> JsClamp01(ny_raw)]

\* applyHomography(vx, vy) with homographyMat = h (not null)
ApplyHomography(h, vx, vy) ==
  LET m      == h.items
      w      == RAdd(RAdd(RMul(m[7], vx), RMul(m[8], vy)), m[9])
      nx_raw == JsDiv(RAdd(RAdd(RMul(m[1], vx), RMul(m[2], vy)), m[3]), w)
      ny_raw == JsDiv(RAdd(RAdd(RMul(m[4], vx), RMul(m[5], vy)), m[6]), w)
      lo     == R(-4, 100)
      hi     == R(104, 100)
      inside == /\ IsFinite(nx_raw) /\ IsFinite(ny_raw)
                /\ RLe(lo, nx_raw) /\ RLe(nx_raw, hi)
                /\ RLe(lo, ny_raw) /\ RLe(ny_raw, hi)
  IN  [inside |-> inside,
       nx |-> JsClamp01(JsOneMinus(nx_raw)),
       ny |-> JsClamp01(ny_raw)]

\* onHandResults: the mapping of the index finger tip (tx, ty)
MapDetection(quad, h, tx, ty) ==
  IF quad = NullObj \/ h = NullObj
  THEN [mode |-> "passthrough", rawX |-> Fx(RSub(ROne, tx)), rawY |-> Fx(ty),
        inside |-> TRUE]
  ELSE Only({ [mode |-> "homography", rawX |-> Fx(mapped.nx),
               rawY |-> Fx(mapped.ny), inside |-> mapped.inside] :
              mapped \in {ApplyHomography(h, tx, ty)} })

(***************************************************************************)
(* synth.js: numbers of the cursor pipeline. A double is held at a         *)
(* resolution of 1/Quantum; NaN is <<0, 0>> and propagates.                *)
(***************************************************************************)
\* the arithmetic of the code on doubles: NaN and the infinities give NaN
FAdd(a, b) ==
  Only({ IF ~IsFinite(x) \/ ~IsFinite(y) THEN NaN ELSE RAdd(x, y) :
         x \in {a}, y \in {b} })
FSub(a, b) ==
  Only({ IF ~IsFinite(x) \/ ~IsFinite(y) THEN NaN ELSE RSub(x, y) :
         x \in {a}, y \in {b} })
FMul(a, b) ==
  Only({ IF ~IsFinite(x) \/ ~IsFinite(y) THEN NaN ELSE RMul(x, y) :
         x \in {a}, y \in {b} })
FDiv(a, b) ==
  Only({ IF ~IsFinite(x) \/ ~IsFinite(y) THEN NaN ELSE RDiv(x, y) :
         x \in {a}, y \in {b} })

\* clamp01(v) and Math.max(lo, Math.min(hi, v))
Clamp(lo, hi, v) ==
  Only({ IF ~IsFinite(x) THEN x
         ELSE IF RLt(x, lo) THEN lo ELSE IF RLt(hi, x) THEN hi ELSE x :
         x \in {v} })
clamp01(v) == Clamp(RZero, ROne, v)

\* 2 * Math.PI
TwoPi == R(710, 113)

\* makeOneEuroFilter({ minCutoff: 6.0, beta: 0.2 }), dCutoff by default
minCutoff == R(6, 1)
beta == R(1, 5)
dCutoff == ROne

\* alpha(cutoff, dt) = 1 / (1 + tau / dt), tau = 1 / (2 pi cutoff)
alpha(cutoff, dt) ==
  Only({ Fx(<<u[1], u[1] + u[2]>>) :
         u \in {Fx(RMul(Fx(RMul(TwoPi, cutoff)), dt))} })

\* Instants at which the handlers run, as values of performance.now() in
\* milliseconds: 4 ms, 100 ms and 200 ms apart.
Clock == <<1000, 1004, 1104, 1304>>

\* the values dt takes: Math.max(t - tPrev, 1e-6) over the instants above
Gaps ==
  {R(1, 1000000)} \cup
  UNION { {R(Clock[j] - Clock[i], 1000) : j \in (i + 1)..Len(Clock)} :
          i \in 1..Len(Clock) }

\* alpha() at the two cutoffs every call starts from, computed once
AlphaTable == [c \in {dCutoff, minCutoff} |-> [dt \in Gaps |-> alpha(c, dt)]]
AlphaOf(cutoff, dt) ==
  Only({ IF c \in DOMAIN AlphaTable /\ dt \in Gaps THEN AlphaTable[c][dt]
         ELSE alpha(c, dt) :
         c \in {cutoff} })

\* a filter as constructed, and after reset(): xPrev = null, dxPrev = 0,
\* tPrev = null (held = FALSE stands for the two nulls)
NewFilter == [held |-> FALSE, xPrev |-> RZero, dxPrev |-> RZero, tPrev |-> 0]

\* Mutant: reset() leaves the previous value in place.
FilterResetKeepsValue(f) == [f EXCEPT !.dxPrev = RZero]

\* reset()
FilterReset(f) == NewFilter

\* Mutant: the step goes past the new value.
FilterSmoothOvershoot(f, x, t, dt) ==
  Only({ Only({ Only({ [f |-> [held |-> TRUE, xPrev |-> xFilt, dxPrev |-> dx,
                               tPrev |-> t],
                        out |-> xFilt] :
                       xFilt \in {Fx(RAdd(x, RMul(aX, RSub(x, f.xPrev))))} }) :
                aX \in {AlphaOf(RAdd(minCutoff, RMul(beta, RAbs(dx))), dt)} }) :
         dx \in { Only({ Fx(RAdd(RDiv(RMul(aD, RSub(x, f.xPrev)), dt),
                                 RMul(RSub(ROne, aD), f.dxPrev))) :
                         aD \in {AlphaOf(dCutoff, dt)} }) } })

\* the smoothing step of filter(x, t) on finite numbers, dt in seconds
FilterSmooth(f, x, t, dt) ==
  Only({ Only({ Only({ [f |-> [held |-> TRUE, xPrev |-> xFilt, dxPrev |-> dx,
                               tPrev |-> t],
                        out |-> xFilt] :
                       xFilt \in {Fx(RAdd(RMul(aX, x),
                                          RMul(RSub(ROne, aX), f.xPrev)))} }) :
                aX \in {AlphaOf(RAdd(minCutoff, RMul(beta, RAbs(dx))), dt)} }) :
         dx \in { Only({ Fx(RAdd(RDiv(RMul(aD, RSub(x, f.xPrev)), dt),
                                 RMul(RSub(ROne, aD), f.dxPrev))) :
                         aD \in {AlphaOf(dCutoff, dt)} }) } })

\* filter(x, t) with t in milliseconds: the new filter and the value returned
FilterStep(f, x, t) ==
  IF ~f.held
  THEN [f |-> [held |-> TRUE, xPrev |-> x, dxPrev |-> f.dxPrev, tPrev |-> t],
        out |-> x]
  ELSE IF ~IsFinite(x) \/ ~IsFinite(f.xPrev) \/ ~IsFinite(f.dxPrev)
  THEN [f |-> [held |-> TRUE, xPrev |-> NaN, dxPrev |-> NaN, tPrev |-> t],
        out |-> NaN]
  ELSE FilterSmooth(f, x, t,
                    IF t - f.tPrev >= 1 THEN R(t - f.tPrev, 1000)
                    ELSE R(1, 1000000))

PREDICT_MS == 65
VEL_ALPHA == R(1, 2)
MAX_VEL == R(8, 1)

\* the predictor as the module initialises it
NewPredictor ==
  [velX |-> RZero, velY |-> RZero, baseX |-> R(1, 2), baseY |-> R(1, 2),
   baseT |-> 0, active |-> FALSE]

\* Mutant: the velocity outlives the reset.
ResetPredictionKeepsVelocity(p) == [p EXCEPT !.active = FALSE, !.baseT = 0]

\* resetPrediction()
ResetPrediction(p) ==
  [p EXCEPT !.velX = RZero, !.velY = RZero, !.active = FALSE, !.baseT = 0]

\* one axis of the velocity update: clamp, then smooth
SmoothVel(vel, f, base, dt) ==
  Only({ Fx(FAdd(FMul(vel, RSub(ROne, VEL_ALPHA)),
                      FMul(cv, VEL_ALPHA))) :
         cv \in {Clamp(RNeg(MAX_VEL), MAX_VEL,
                       FDiv(FSub(f, base), dt))} })

\* updatePrediction(fx, fy, t), t in milliseconds
UpdatePrediction(p, fx, fy, t) ==
  Only({ [velX |-> q.velX, velY |-> q.velY, baseX |-> fx, baseY |-> fy,
          baseT |-> t, active |-> TRUE] :
         q \in { IF p.baseT > 0 /\ t - p.baseT > 5
                 THEN [p EXCEPT
                        !.velX = SmoothVel(p.velX, fx, p.baseX,
                                           R(t - p.baseT, 1000)),
                        !.velY = SmoothVel(p.velY, fy, p.baseY,
                                           R(t - p.baseT, 1000))]
                 ELSE p } })

\* one axis of the extrapolation
Extrapolate(base, vel, span) ==
  clamp01(Fx(FAdd(base, FMul(vel, span))))

\* the extrapolation of getPredictedPosition(), dt capped at 150 ms
PredictAhead(p, t) ==
  Only({ [x |-> Extrapolate(p.baseX, p.velX, span),
          y |-> Extrapolate(p.baseY, p.velY, span)] :
         span \in { RAdd(IF t - p.baseT > 150 THEN R(150, 1000)
                         ELSE R(t - p.baseT, 1000),
                         R(PREDICT_MS, 1000)) } })

\* Mutant: an inactive predictor answers with the initial position.
GetPredictedPositionDefault(p, t) ==
  IF ~p.active THEN [x |-> R(1, 2), y |-> R(1, 2)] ELSE PredictAhead(p, t)

\* getPredictedPosition() at performance.now() = t
GetPredictedPosition(p, t) ==
  IF ~p.active THEN [x |-> p.baseX, y |-> p.baseY] ELSE PredictAhead(p, t)

(***************************************************************************)
(* synth.js: calibration and its persistence                               *)
(***************************************************************************)
Pt(xn, xd, yn, yd) == [x |-> R(xn, xd), y |-> R(yn, yd)]

\* a JavaScript array
Arr(items) == [t |-> "array", items |-> items]

\* the value of onCalibChange once a listener is registered
Listener == [t |-> "function"]
\* the element created by setupCursorOverlay
CursorDiv == [t |-> "div"]

\* JSON.stringify(v): a string holding well-formed JSON of v
JSONstringify(v) == [t |-> "string", json |-> TRUE, value |-> v]
\* JSON.parse(raw): the value, or a SyntaxError
JSONparse(raw) ==
  IF raw.json THEN [ok |-> TRUE, value |-> raw.value] ELSE [ok |-> FALSE]

\* _onPreviewClick: px, py to video space (the preview is mirrored)
Unmirror(p) == [x |-> RSub(ROne, p.x), y |-> p.y]

\* Preview clicks offered for the k-th corner, as fractions of the preview
\* rectangle. The third click lands on the intended corner, on a second
\* usable position, or on the line through the second and the fourth.
ClickChoices ==
  << {Pt(1, 4, 1, 4)},
     {Pt(3, 4, 1, 4)},
     {Pt(3, 4, 3, 4), Pt(1, 1, 1, 1), Pt(1, 2, 1, 2)},
     {Pt(1, 4, 3, 4)} >>

\* the quads these clicks can confirm
ClickQuads ==
  { <<Unmirror(p1), Unmirror(p2), Unmirror(p3), Unmirror(p4)>> :
      p1 \in ClickChoices[1], p2 \in ClickChoices[2],
      p3 \in ClickChoices[3], p4 \in ClickChoices[4] }

\* _computeHomography on the quads of this model, solved once
HomographyTable == [q \in ClickQuads |-> ComputeHomography(q)]

\* _computeHomography(quad) as the handlers call it
HomographyOf(quad) ==
  IF quad \in ClickQuads THEN HomographyTable[quad] ELSE ComputeHomography(quad)

AllClicks == ClickChoices[1] \cup ClickChoices[2] \cup ClickChoices[3]
               \cup ClickChoices[4]

\* Index finger tips (lm[8]) offered to onHandResults
TipPoints == {Pt(1, 2, 1, 2), Pt(1, 8, 1, 4)}

\* Quads saved by earlier sessions of the cursor: the square of the clicks
\* above, and a keystone (the camera looks at the surface from below, the
\* far edge is shorter)
SquareQuad ==
  <<Pt(3, 4, 1, 4), Pt(1, 4, 1, 4), Pt(1, 4, 3, 4), Pt(3, 4, 3, 4)>>
KeystoneQuad ==
  <<Pt(3, 4, 1, 4), Pt(1, 4, 1, 4), Pt(3, 8, 1, 2), Pt(5, 8, 1, 2)>>
CursorSlots ==
  {NullObj, JSONstringify(Arr(SquareQuad)), JSONstringify(Arr(KeystoneQuad))}

\* Index finger tips offered while the cursor is exercised: the centre, two
\* tips the square maps to nx_raw = 1.03 and 1.05, and a tip below the
\* keystone
CursorTips ==
  {Pt(1, 2, 1, 2), Pt(47, 200, 1, 2), Pt(9, 40, 1, 2), Pt(1, 2, 3, 4)}

\* What the slot may hold when a session starts without this model having
\* written it: nothing, text that is not JSON, JSON of a non-array, JSON of
\* a 3-element array, or a solvable quad saved by an earlier session.
InitialSlots ==
  { NullObj,
    [t |-> "string", json |-> FALSE],
    JSONstringify([t |-> "object"]),
    JSONstringify(Arr(<<Pt(1, 4, 1, 4), Pt(3, 4, 1, 4), Pt(3, 4, 3, 4)>>)) }
  \cup { JSONstringify(Arr(q)) : q \in {r \in ClickQuads : HomographyOf(r) # NullObj} }

\* Mutant: an installed quad decides the phase before the mode does.
NotifyCalibQuadFirst(listener, mode, quad, points) ==
  IF listener = NullObj THEN <<>>
  ELSE << [phase |-> IF quad # NullObj THEN "done"
                     ELSE IF mode THEN "collecting" ELSE "idle",
           pointsCollected |-> IF quad # NullObj THEN 4
                               ELSE IF mode THEN Len(points) ELSE 0] >>

\* _notifyCalib(): the notifications it delivers (none without a listener)
NotifyCalib(listener, mode, quad, points) ==
  IF listener = NullObj THEN <<>>
  ELSE << [phase |-> IF mode THEN "collecting"
                     ELSE IF quad # NullObj THEN "done" ELSE "idle",
           pointsCollected |-> IF mode THEN Len(points)
                               ELSE IF quad # NullObj THEN 4 ELSE 0] >>

\* The calibration handlers work on the record
\* c = [calibPoints, calibQuad, homographyMat, calibMode, slot, notified,
\* raised].
CalState ==
  [calibPoints |-> calibPoints, calibQuad |-> calibQuad,
   homographyMat |-> homographyMat, calibMode |-> calibMode,
   slot |-> slot, notified |-> <<>>, raised |-> FALSE]

\* Mutant: starting a calibration discards the confirmed one.
StartCalibrationFnDropsQuad(c, listener) ==
  [c EXCEPT !.calibPoints = <<>>, !.calibMode = TRUE, !.calibQuad = NullObj,
            !.homographyMat = NullObj,
            !.notified = @ \o NotifyCalib(listener, TRUE, NullObj, <<>>)]

\* startCalibration()
StartCalibrationFn(c, listener) ==
  [c EXCEPT !.calibPoints = <<>>, !.calibMode = TRUE,
            !.notified = @ \o NotifyCalib(listener, TRUE, c.calibQuad, <<>>)]

\* Mutant: clearing forgets to leave collecting mode.
ClearCalibrationFnKeepsMode(c, avail, listener) ==
  [calibPoints |-> <<>>, calibQuad |-> NullObj, homographyMat |-> NullObj,
   calibMode |-> c.calibMode,
   slot |-> IF avail THEN NullObj ELSE c.slot,
   notified |-> c.notified \o NotifyCalib(listener, c.calibMode, NullObj, <<>>),
   raised |-> c.raised]

\* clearCalibration(); removeItem throws when the store is unusable
ClearCalibrationFn(c, avail, listener) ==
  [calibPoints |-> <<>>, calibQuad |-> NullObj, homographyMat |-> NullObj,
   calibMode |-> FALSE,
   slot |-> IF avail THEN NullObj ELSE c.slot,
   notified |-> c.notified \o NotifyCalib(listener, FALSE, NullObj, <<>>),
   raised |-> c.raised]

\* isCalibrated()
IsCalibrated(quad) == quad # NullObj

\* Mutant: the emptied in-progress list is saved instead of the quad.
SaveCalibrationOfPoints(c, writeOk) ==
  [c EXCEPT !.slot = IF writeOk THEN JSONstringify(Arr(c.calibPoints)) ELSE @]

\* _saveCalibration(); a failing setItem is caught and logged
SaveCalibration(c, writeOk) ==
  [c EXCEPT !.slot = IF writeOk THEN JSONstringify(c.calibQuad) ELSE @]

\* Mutant: the in-progress list is not emptied on confirmation.
ConfirmCalibrationKeepsPoints(c, writeOk, listener) ==
  LET c1 == [c EXCEPT !.calibQuad = Arr(c.calibPoints),
                      !.calibMode = FALSE,
                      !.homographyMat = HomographyOf(c.calibPoints)]
      c2 == SaveCalibration(c1, writeOk)
  IN  [c2 EXCEPT !.notified =
         @ \o NotifyCalib(listener, c2.calibMode, c2.calibQuad, c2.calibPoints)]

\* _confirmCalibration()
ConfirmCalibration(c, writeOk, listener) ==
  LET c1 == [c EXCEPT !.calibQuad = Arr(c.calibPoints),
                      !.calibMode = FALSE,
                      !.calibPoints = <<>>,
                      !.homographyMat = HomographyOf(c.calibPoints)]
      c2 == SaveCalibration(c1, writeOk)
  IN  [c2 EXCEPT !.notified =
         @ \o NotifyCalib(listener, c2.calibMode, c2.calibQuad, c2.calibPoints)]

\* Mutant: the click is consumed whatever the mode.
OnPreviewClickAnyMode(c, p, writeOk, listener) ==
  LET pts == Append(c.calibPoints, Unmirror(p))
      c1  == [c EXCEPT !.calibPoints = pts,
                       !.notified = @ \o NotifyCalib(listener, c.calibMode,
                                                     c.calibQuad, pts)]
  IN  IF Len(pts) = 4 THEN ConfirmCalibration(c1, writeOk, listener)
      ELSE c1

\* _onPreviewClick(e), the click at fraction p of the preview rectangle
OnPreviewClick(c, p, writeOk, listener) ==
  IF ~c.calibMode THEN c
  ELSE LET pts == Append(c.calibPoints, Unmirror(p))
           c1  == [c EXCEPT !.calibPoints = pts,
                            !.notified = @ \o NotifyCalib(listener, c.calibMode,
                                                          c.calibQuad, pts)]
       IN  IF Len(pts) = 4 THEN ConfirmCalibration(c1, writeOk, listener)
           ELSE c1

\* Mutant: the exceptions of getItem and JSON.parse leave the loader.
LoadCalibrationUnguarded(c, avail, listener) ==
  IF ~avail THEN [c EXCEPT !.raised = TRUE]
  ELSE LET raw == c.slot
       IN  IF raw = NullObj THEN c
           ELSE LET parsed == JSONparse(raw)
                IN  IF ~parsed.ok THEN [c EXCEPT !.raised = TRUE]
                    ELSE LET pts == parsed.value
                         IN  IF pts.t = "array" /\ Len(pts.items) = 4
                             THEN [c EXCEPT
                                    !.calibQuad = pts,
                                    !.homographyMat = HomographyOf(pts.items),
                                    !.notified = @ \o NotifyCalib(listener,
                                                    c.calibMode, pts, c.calibPoints)]
                             ELSE c

\* Mutant: any stored array is taken for a quad.
LoadCalibrationAnyArray(c, avail, listener) ==
  IF ~avail THEN c
  ELSE LET raw == c.slot
       IN  IF raw = NullObj THEN c
           ELSE LET parsed == JSONparse(raw)
                IN  IF ~parsed.ok THEN c
                    ELSE LET pts == parsed.value
                         IN  IF pts.t = "array"
                             THEN [c EXCEPT
                                    !.calibQuad = pts,
                                    !.homographyMat = NullObj,
                                    !.notified = @ \o NotifyCalib(listener,
                                                    c.calibMode, pts, c.calibPoints)]
                             ELSE c

\* _loadCalibration(); every exception is caught and logged
LoadCalibration(c, avail, listener) ==
  IF ~avail THEN c
  ELSE LET raw == c.slot
       IN  IF raw = NullObj THEN c
           ELSE LET parsed == JSONparse(raw)
                IN  IF ~parsed.ok THEN c
                    ELSE LET pts == parsed.value
                         IN  IF pts.t = "array" /\ Len(pts.items) = 4
                             THEN [c EXCEPT
                                    !.calibQuad = pts,
                                    !.homographyMat = HomographyOf(pts.items),
                                    !.notified = @ \o NotifyCalib(listener,
                                                    c.calibMode, pts, c.calibPoints)]
                             ELSE c

SetCalState(c) ==
  /\ calibPoints' = c.calibPoints
  /\ calibQuad' = c.calibQuad
  /\ homographyMat' = c.homographyMat
  /\ calibMode' = c.calibMode
  /\ slot' = c.slot
  /\ notified' = c.notified
  /\ raised' = c.raised

NoCalOp == [kind |-> "none", quad |-> <<>>, stored |-> FALSE, sess |-> "cur"]

CalibStart(slots) ==
  /\ calibPoints = <<>>
  /\ calibQuad = NullObj
  /\ homographyMat = NullObj
  /\ calibMode = FALSE
  /\ onCalibChange = NullObj
  /\ cursorEl = NullObj
  /\ lastLandmarks = NullObj
  /\ cursorActive = FALSE
  /\ slot \in slots
  /\ storageAvail \in BOOLEAN
  /\ notified = <<>>
  /\ lastOp = "load"
  /\ clickConsumed = FALSE
  /\ clicks = <<>>
  /\ lastCalOp = NoCalOp
  /\ lastMapMode = "none"
  /\ sinceClear = FALSE
  /\ raised = FALSE

CalibInit == CalibStart(InitialSlots)

now == Clock[tick]

\* melody-canvas gesture.js before initGestures, with no frame seen
NoTemplates ==
  [templates |-> << >>, templatesLoaded |-> FALSE, init |-> FALSE,
   lm |-> << >>, stage |-> 0]

NoDetection ==
  [first |-> FALSE, rawX |-> RZero, rawY |-> RZero, sx |-> RZero,
   sy |-> RZero, inside |-> FALSE]
\* What a caller of the predictor has seen: its latest call, the latest
\* answer of getPredictedPosition(), the position of the latest update (the
\* initial base before any), whether an update was ever made, whether a
\* reset was the last change, and since the last reset whether x rose and
\* whether it fell between two updates more than 5 ms apart.
NoPredObs ==
  [op |-> "none", out |-> [x |-> RZero, y |-> RZero],
   lastBase |-> [x |-> R(1, 2), y |-> R(1, 2)], updated |-> FALSE,
   sinceReset |-> FALSE, rose |-> FALSE, fell |-> FALSE]
\* What a caller of a filter has seen: its latest call, the argument and
\* the answer of the latest filter(x, t), whether that call was the first
\* since the construction or a reset, whether the filter had filtered
\* before that call, whether the next call will be a first one, and whether
\* the filter has ever filtered; for calls that repeat one value at one
\* timestamp increment (in ms), the answer before the latest call, the number
\* of such calls and the increment.
NoFiltObs ==
  [op |-> "none", arg |-> RZero, out |-> RZero, first |-> FALSE,
   again |-> FALSE, fresh |-> TRUE, ever |-> FALSE,
   prev |-> RZero, run |-> 0, inc |-> 0]
\* What a caller of the solver has seen: the quad of the latest
\* _computeHomography, its result, and the latest point projected with it
NotSolved ==
  [quad |-> <<>>, h |-> NullObj, probe |-> [x |-> RZero, y |-> RZero],
   image |-> [x |-> RZero, y |-> RZero], probed |-> FALSE]

CursorInit ==
  /\ tick = 1
  /\ filterX = NewFilter
  /\ filterY = NewFilter
  /\ pred = NewPredictor
  /\ cursorNorm = [x |-> R(1, 2), y |-> R(1, 2)]
  /\ activeLayer = 0
  /\ lastDet = NoDetection
  /\ movedBefore = FALSE
  /\ predObs = NoPredObs
  /\ filtObs = NoFiltObs
  /\ solved = NotSolved
  /\ cls = NoTemplates

\* onCalibrationChange(fn)
OnCalibrationChange ==
  /\ onCalibChange' = Listener
  /\ notified' = <<>>
  /\ lastOp' = "onCalibrationChange"
  /\ raised' = FALSE
  /\ UNCHANGED <<calibPoints, calibQuad, homographyMat, calibMode, cursorEl,
                 lastLandmarks, cursorActive, slot, storageAvail,
                 clickConsumed, clicks, lastCalOp, lastMapMode, sinceClear>>
  /\ UNCHANGED <<gvars, kvars, uvars>>

\* startCalibration()
StartCalibration ==
  /\ \E c1 \in {StartCalibrationFn(CalState, onCalibChange)} : SetCalState(c1)
  /\ lastOp' = "startCalibration"
  /\ clicks' = <<>>
  /\ UNCHANGED <<onCalibChange, cursorEl, lastLandmarks, cursorActive,
                 storageAvail, clickConsumed, lastCalOp, lastMapMode,
                 sinceClear>>
  /\ UNCHANGED <<gvars, kvars, uvars>>

\* clearCalibration()
ClearCalibration ==
  /\ \E c1 \in {ClearCalibrationFn(CalState, storageAvail, onCalibChange)} :
        SetCalState(c1)
  /\ lastOp' = "clearCalibration"
  /\ clicks' = <<>>
  /\ lastCalOp' = [kind |-> "clear", quad |-> <<>>, stored |-> storageAvail,
                   sess |-> "cur"]
  /\ sinceClear' = TRUE
  /\ UNCHANGED <<onCalibChange, cursorEl, lastLandmarks, cursorActive,
                 storageAvail, clickConsumed, lastMapMode>>
  /\ UNCHANGED <<gvars, kvars, uvars>>

\* a click on the preview canvas; setItem may also fail on quota
PreviewClick ==
  \E p \in (IF calibMode THEN ClickChoices[Len(calibPoints) + 1] ELSE AllClicks),
     quotaOk \in BOOLEAN :
    LET writeOk == storageAvail /\ quotaOk
        fourth  == calibMode /\ Len(calibPoints) = 3
    IN  /\ \E c1 \in {OnPreviewClick(CalState, p, writeOk, onCalibChange)} :
             SetCalState(c1)
        /\ lastOp' = "click"
        /\ clickConsumed' = calibMode
        /\ clicks' = IF calibMode THEN Append(clicks, Unmirror(p)) ELSE clicks
        /\ lastCalOp' = IF fourth
                        THEN [kind |-> "confirm",
                              quad |-> Append(clicks, Unmirror(p)),
                              stored |-> writeOk, sess |-> "cur"]
                        ELSE lastCalOp
        /\ sinceClear' = (sinceClear /\ ~fourth)
        /\ UNCHANGED <<onCalibChange, cursorEl, lastLandmarks, cursorActive,
                       storageAvail, lastMapMode>>
        /\ UNCHANGED <<gvars, kvars, uvars>>

\* initHand() up to its rejection: the scripts or the camera are unavailable
InitHandFails ==
  /\ cursorEl = NullObj
  /\ lastOp' = "initHandFailed"
  /\ raised' = TRUE
  /\ notified' = <<>>
  /\ UNCHANGED <<calibPoints, calibQuad, homographyMat, calibMode,
                 onCalibChange, cursorEl, lastLandmarks, cursorActive, slot,
                 storageAvail, clickConsumed, clicks, lastCalOp, lastMapMode,
                 sinceClear>>
  /\ UNCHANGED <<gvars, kvars, uvars>>

\* initHand(): setupCursorOverlay() then _loadCalibration()
InitHand ==
  /\ cursorEl = NullObj
  /\ cursorEl' = CursorDiv
  /\ \E c1 \in {LoadCalibration(CalState, storageAvail, onCalibChange)} :
        SetCalState(c1)
  /\ lastOp' = "initHand"
  /\ UNCHANGED <<onCalibChange, lastLandmarks, cursorActive, storageAvail,
                 clickConsumed, clicks, lastCalOp, lastMapMode, sinceClear>>
  /\ UNCHANGED <<gvars, kvars, uvars>>

\* onHandResults(results) without a hand
OnHandResultsNoHand ==
  /\ cursorEl # NullObj
  /\ lastLandmarks' = NullObj
  /\ filterX' = FilterReset(filterX)
  /\ filterY' = FilterReset(filterY)
  /\ pred' = ResetPrediction(pred)
  /\ cursorActive' = FALSE
  /\ lastOp' = "onHandResults"
  /\ notified' = <<>>
  /\ raised' = FALSE
  /\ lastMapMode' = "none"
  /\ movedBefore' = (pred.velX # RZero \/ pred.velY # RZero)
  /\ lastDet' = NoDetection
  /\ UNCHANGED <<calibPoints, calibQuad, homographyMat, calibMode,
                 onCalibChange, cursorEl, slot, storageAvail, clickConsumed,
                 clicks, lastCalOp, sinceClear>>
  /\ UNCHANGED <<tick, cursorNorm, activeLayer>>
  /\ UNCHANGED <<gvars, uvars>>

\* onHandResults(results) with a hand whose index tip is at tip:
\* mapping, filtering, updatePrediction, updateCursor
Detect(tip) ==
  /\ cursorEl # NullObj
  /\ \E m \in {MapDetection(calibQuad, homographyMat, tip.x, tip.y)} :
       \E fx \in {FilterStep(filterX, m.rawX, now)},
          fy \in {FilterStep(filterY, m.rawY, now)} :
         /\ lastLandmarks' = tip
         /\ filterX' = fx.f
         /\ filterY' = fy.f
         /\ pred' = UpdatePrediction(pred, fx.out, fy.out, now)
         /\ cursorActive' = m.inside
         /\ cursorNorm' = IF m.inside THEN [x |-> fx.out, y |-> fy.out]
                          ELSE cursorNorm
         /\ lastMapMode' = m.mode
         /\ lastDet' = [first |-> lastLandmarks = NullObj,
                        rawX |-> m.rawX, rawY |-> m.rawY,
                        sx |-> fx.out, sy |-> fy.out, inside |-> m.inside]
  /\ lastOp' = "onHandResults"
  /\ notified' = <<>>
  /\ raised' = FALSE
  /\ UNCHANGED <<calibPoints, calibQuad, homographyMat, calibMode,
                 onCalibChange, cursorEl, slot, storageAvail, clickConsumed,
                 clicks, lastCalOp, sinceClear>>
  /\ UNCHANGED <<tick, activeLayer, movedBefore>>
  /\ UNCHANGED <<gvars, uvars>>

\* a detection while the calibration is being exercised
OnHandResults == \E tip \in TipPoints : Detect(tip)

\* a detection while the cursor is exercised
OnHandResultsCursor == \E tip \in CursorTips : Detect(tip)

\* getHandCursorState()
GetHandCursorState ==
  [x |-> cursorNorm.x, y |-> cursorNorm.y, active |-> cursorActive,
   layerIndex |-> activeLayer]

\* tickBrushEngine: const gesture = cursorState.gesture; a property the
\* record does not have reads as undefined
GestureOf(cursorState) ==
  IF "gesture" \in DOMAIN cursorState THEN cursorState.gesture
  ELSE "undefined"

\* tickHand(dt): the cursor follows the predictor on every animation frame
TickHand ==
  /\ cursorNorm' = IF cursorActive /\ pred.active /\ cursorEl # NullObj
                   THEN GetPredictedPosition(pred, now)
                   ELSE cursorNorm
  /\ lastOp' = "tickHand"
  /\ notified' = <<>>
  /\ raised' = FALSE
  /\ UNCHANGED <<calibPoints, calibQuad, homographyMat, calibMode,
                 onCalibChange, cursorEl, lastLandmarks, cursorActive, slot,
                 storageAvail, clickConsumed, clicks, lastCalOp, lastMapMode,
                 sinceClear>>
  /\ UNCHANGED <<tick, filterX, filterY, pred, activeLayer, lastDet,
                 movedBefore>>
  /\ UNCHANGED <<gvars, uvars>>

\* setHandLayer(index)
SetHandLayer ==
  \E index \in {-1, 16} :
    /\ activeLayer' = (IF index < 0 THEN 0 ELSE IF index > 15 THEN 15 ELSE index)
    /\ lastOp' = "setHandLayer"
    /\ notified' = <<>>
    /\ raised' = FALSE
    /\ UNCHANGED <<calibPoints, calibQuad, homographyMat, calibMode,
                   onCalibChange, cursorEl, lastLandmarks, cursorActive, slot,
                   storageAvail, clickConsumed, clicks, lastCalOp,
                   lastMapMode, sinceClear>>
    /\ UNCHANGED <<tick, filterX, filterY, pred, cursorNorm, lastDet,
                   movedBefore>>
    /\ UNCHANGED <<gvars, uvars>>

\* Filtered positions handed to updatePrediction when it is called on its
\* own: the doubles nearest 0.2 and 0.3, the right edge, and the NaN a
\* filter can return
PredPoints ==
  { [x |-> Fx(R(1, 5)), y |-> R(1, 2)], [x |-> Fx(R(3, 10)), y |-> R(1, 2)],
    [x |-> ROne, y |-> RZero], [x |-> NaN, y |-> R(1, 2)] }

\* updatePrediction(fx, fy, performance.now()) called on its own
PredUpdate ==
  \E fx \in {p.x : p \in PredPoints}, fy \in {p.y : p \in PredPoints} :
    /\ [x |-> fx, y |-> fy] \in PredPoints
    /\ pred' = UpdatePrediction(pred, fx, fy, now)
    /\ predObs' =
         [predObs EXCEPT
            !.op = "update",
            !.out = NoPredObs.out,
            !.lastBase = [x |-> fx, y |-> fy],
            !.updated = TRUE,
            !.sinceReset = FALSE,
            !.rose = @ \/ (pred.baseT > 0 /\ now - pred.baseT > 5
                             /\ IsFinite(fx) /\ IsFinite(pred.baseX)
                             /\ RLt(pred.baseX, fx)),
            !.fell = @ \/ (pred.baseT > 0 /\ now - pred.baseT > 5
                             /\ IsFinite(fx) /\ IsFinite(pred.baseX)
                             /\ RLt(fx, pred.baseX))]
    /\ UNCHANGED <<tick, filterX, filterY, cursorNorm, activeLayer, lastDet,
                   movedBefore, filtObs, solved, cls>>
    /\ UNCHANGED <<gvars, cvars>>

\* resetPrediction() called on its own
PredReset ==
  /\ pred' = ResetPrediction(pred)
  /\ predObs' = [predObs EXCEPT !.op = "reset", !.out = NoPredObs.out,
                                !.sinceReset = TRUE,
                                !.rose = FALSE, !.fell = FALSE]
  /\ UNCHANGED <<tick, filterX, filterY, cursorNorm, activeLayer, lastDet,
                 movedBefore, filtObs, solved, cls>>
  /\ UNCHANGED <<gvars, cvars>>

\* getPredictedPosition() called on its own
PredPredict ==
  /\ predObs' = [predObs EXCEPT !.op = "predict",
                                !.out = GetPredictedPosition(pred, now)]
  /\ UNCHANGED <<filtObs, solved, cls>>
  /\ UNCHANGED <<gvars, cvars, kvars>>

\* Raw positions handed to a filter when it is called on its own
FilterInputs == {Fx(R(1, 5)), Fx(R(3, 10)), ROne, NaN}

\* filterX.filter(x, performance.now() / 1000) called on its own
FilterCall ==
  \E x \in FilterInputs :
    \E r \in {FilterStep(filterX, x, now)} :
      /\ filterX' = r.f
      /\ filtObs' = [op |-> "filter", arg |-> x, out |-> r.out,
                     first |-> filtObs.fresh, again |-> filtObs.ever,
                     fresh |-> FALSE, ever |-> TRUE,
                     prev |-> RZero, run |-> 0, inc |-> 0]
      /\ UNCHANGED <<tick, filterY, pred, cursorNorm, activeLayer, lastDet,
                     movedBefore, predObs, solved, cls>>
      /\ UNCHANGED <<gvars, cvars>>

\* filterX.reset() called on its own
FilterResetCall ==
  /\ filterX' = FilterReset(filterX)
  /\ filtObs' = [filtObs EXCEPT !.op = "reset", !.arg = RZero, !.out = RZero,
                                !.first = FALSE, !.again = FALSE,
                                !.fresh = TRUE, !.prev = RZero, !.run = 0,
                                !.inc = 0]
  /\ UNCHANGED <<tick, filterY, pred, cursorNorm, activeLayer, lastDet,
                 movedBefore, predObs, solved, cls>>
  /\ UNCHANGED <<gvars, cvars>>

\* Values a filter is seeded with and then fed repeatedly, and the
\* timestamp increments of the repeated calls in ms (a burst, a camera frame
\* at 30 per second, a slow detector)
StaticValues == {RZero, Fx(R(3, 10)), ROne}
Increments == {4, 33, 100}

\* the first filterX.filter(x0, t) of a fresh filter
SeedFilter ==
  /\ ~filterX.held
  /\ \E x0 \in StaticValues :
       \E r \in {FilterStep(filterX, x0, Clock[1])} :
         /\ filterX' = r.f
         /\ filtObs' = [op |-> "filter", arg |-> x0, out |-> r.out,
                        first |-> filtObs.fresh, again |-> filtObs.ever,
                        fresh |-> FALSE, ever |-> TRUE,
                        prev |-> RZero, run |-> 0, inc |-> 0]
  /\ UNCHANGED <<tick, filterY, pred, cursorNorm, activeLayer, lastDet,
                 movedBefore, predObs, solved, cls>>
  /\ UNCHANGED <<gvars, cvars>>

\* filterX.filter(c, t) with the value of the call before and the timestamp
\* increment of the call before; the first such call chooses both
FeedConstant ==
  /\ filterX.held
  /\ filtObs.run < MaxFeeds
  /\ \E c \in (IF filtObs.run = 0 THEN StaticValues ELSE {filtObs.arg}),
        inc \in (IF filtObs.run = 0 THEN Increments ELSE {filtObs.inc}) :
       \E r \in {FilterStep(filterX, c, filterX.tPrev + inc)} :
         /\ filterX' = r.f
         /\ filtObs' = [op |-> "feed", arg |-> c, out |-> r.out,
                        first |-> FALSE, again |-> TRUE,
                        fresh |-> FALSE, ever |-> TRUE,
                        prev |-> filterX.xPrev, run |-> filtObs.run + 1,
                        inc |-> inc]
  /\ UNCHANGED <<tick, filterY, pred, cursorNorm, activeLayer, lastDet,
                 movedBefore, predObs, solved, cls>>
  /\ UNCHANGED <<gvars, cvars>>

\* Quads handed to the solver when it is called on its own: each corner on
\* the frame or a quarter in; the third also at the centre, which is on the
\* line through every second and fourth corner offered
SolveQuads ==
  { <<p1, p2, p3, p4>> :
      p1 \in {Pt(0, 1, 0, 1), Pt(1, 4, 1, 4)},
      p2 \in {Pt(1, 1, 0, 1), Pt(3, 4, 1, 4)},
      p3 \in {Pt(1, 1, 1, 1), Pt(3, 4, 3, 4), Pt(1, 2, 1, 2)},
      p4 \in {Pt(0, 1, 1, 1), Pt(1, 4, 3, 4)} }

\* _computeHomography on these quads, solved once
SolveTable == [q \in SolveQuads |-> ComputeHomography(q)]

\* _computeHomography(quad) called on its own
Solve ==
  \E q \in SolveQuads :
    /\ solved' = [NotSolved EXCEPT !.quad = q, !.h = SolveTable[q]]
    /\ UNCHANGED <<predObs, filtObs, cls>>
    /\ UNCHANGED <<gvars, cvars, kvars>>

\* the matrix of the latest solve applied to a corner of its quad, to the
\* centre of the frame or to a point left of it
ProjectPoint ==
  /\ solved.h # NullObj
  /\ \E p \in {solved.quad[i] : i \in 1..4}
              \cup {Pt(1, 2, 1, 2), Pt(1, 4, 1, 2)} :
       solved' = [solved EXCEPT !.probe = p,
                                !.image = Project(solved.h, p.x, p.y),
                                !.probed = TRUE]
  /\ UNCHANGED <<predObs, filtObs, cls>>
  /\ UNCHANGED <<gvars, cvars, kvars>>

\* Time passes between two handlers.
Elapse ==
  /\ tick < Len(Clock)
  /\ tick' = tick + 1
  /\ UNCHANGED <<filterX, filterY, pred, cursorNorm, activeLayer, lastDet,
                 movedBefore>>
  /\ UNCHANGED <<gvars, cvars, uvars>>

\* The page is loaded again: every module starts over, the store stays.
Restart ==
  /\ calibPoints' = <<>>
  /\ calibQuad' = NullObj
  /\ homographyMat' = NullObj
  /\ calibMode' = FALSE
  /\ onCalibChange' = NullObj
  /\ cursorEl' = NullObj
  /\ lastLandmarks' = NullObj
  /\ cursorActive' = FALSE
  /\ storageAvail' \in BOOLEAN
  /\ notified' = <<>>
  /\ raised' = FALSE
  /\ lastOp' = "load"
  /\ clickConsumed' = FALSE
  /\ clicks' = <<>>
  /\ lastCalOp' = [lastCalOp EXCEPT !.sess = "prev"]
  /\ lastMapMode' = "none"
  /\ sinceClear' = FALSE
  /\ tick' = 1
  /\ filterX' = NewFilter
  /\ filterY' = NewFilter
  /\ pred' = NewPredictor
  /\ cursorNorm' = [x |-> R(1, 2), y |-> R(1, 2)]
  /\ activeLayer' = 0
  /\ lastDet' = NoDetection
  /\ movedBefore' = FALSE
  /\ UNCHANGED slot
  /\ UNCHANGED <<gvars, uvars>>

CalibNext ==
  \/ OnCalibrationChange
  \/ StartCalibration
  \/ ClearCalibration
  \/ PreviewClick
  \/ InitHandFails
  \/ InitHand
  \/ OnHandResultsNoHand
  \/ OnHandResults

\* the cursor of one session: startup, detections, animation frames
CursorNext ==
  \/ InitHand
  \/ OnHandResultsNoHand
  \/ OnHandResultsCursor
  \/ TickHand
  \/ Elapse

\* the predictor driven directly
PredictorNext ==
  \/ PredUpdate
  \/ PredReset
  \/ PredPredict
  \/ Elapse

\* one filter driven directly
FilterNext ==
  \/ FilterCall
  \/ FilterResetCall
  \/ Elapse

\* Knuckle offsets from the wrist of index, middle, ring and pinky of an
\* upright hand
Knuckles == << <<-5, -10>>, <<0, -10>>, <<5, -10>>, <<10, -5>> >>
\* r quarter turns of an offset (r = 1, 2), or its mirror image (r = 3)
Turn(p, r) ==
  IF r = 0 THEN p
  ELSE IF r = 1 THEN <<-p[2], p[1]>>
  ELSE IF r = 2 THEN <<-p[1], -p[2]>>
  ELSE <<-p[1], p[2]>>
\* The frame of a hand with its wrist at w, turned or mirrored by r, whose
\* finger i has its tip at ks[i] fifths of the knuckle offset; ks[i] = 0
\* puts the knuckle on the wrist.
HandAt(w, r, ks) ==
  LET mcp(i) == IF ks[i] = 0 THEN <<0, 0>> ELSE Turn(Knuckles[i], r)
      tip(i) == IF ks[i] = 0 THEN Turn(Knuckles[i], r)
                ELSE Turn(<<(Knuckles[i][1] * ks[i]) \div 5,
                            (Knuckles[i][2] * ks[i]) \div 5>>, r)
      at(p)  == <<w[1] + p[1], w[2] + p[2]>>
  IN  << w, at(mcp(1)), at(tip(1)), at(mcp(2)), at(tip(2)),
         at(mcp(3)), at(tip(3)), at(mcp(4)), at(tip(4)) >>

\* Finger settings of the frames offered: ratios 1.0 (5), 1.2 (6, between the
\* thresholds), 1.4 (7) and a knuckle on the wrist (0)
FingerSettings ==
  { <<7, 7, 7, 7>>, <<7, 7, 5, 5>>, <<7, 5, 5, 5>>, <<5, 5, 5, 5>>,
    <<6, 6, 6, 6>>, <<7, 7, 6, 6>>, <<7, 6, 5, 5>>, <<7, 7, 7, 5>>,
    <<0, 5, 5, 5>>, <<7, 0, 5, 5>>, <<5, 7, 7, 7>>, <<7, 5, 6, 5>> }
\* Landmark frames offered to updateGesture: upright, on its side, upside
\* down and mirrored
HandFrames ==
  { HandAt(<<50, 80>>, r, ks) : r \in {0, 1, 2, 3}, ks \in FingerSettings }

\* What gestures.json may hold: nothing usable (no file), only samples that
\* are skipped (too short, or degenerate), the three classes, or a class of
\* its own name with an upright and a turned sample.
ShortSample == << <<50, 80>> >>
GestureFiles ==
  { NullObj,
    [t |-> "json",
     classes |-> << [name |-> "draw",
                     samples |-> << ShortSample,
                                    HandAt(<<0, 0>>, 0, <<7, 0, 5, 5>>) >>] >>],
    [t |-> "json",
     classes |-> << [name |-> "pointing",
                     samples |-> << HandAt(<<40, 60>>, 0, <<7, 5, 5, 5>>) >>],
                    [name |-> "draw",
                     samples |-> << HandAt(<<40, 60>>, 0, <<7, 7, 5, 5>>),
                                    ShortSample >>],
                    [name |-> "erase",
                     samples |-> << HandAt(<<40, 60>>, 0, <<7, 7, 7, 7>>) >>] >>],
    [t |-> "json",
     classes |-> << [name |-> "fist",
                     samples |-> << HandAt(<<0, 0>>, 0, <<5, 5, 5, 5>>),
                                    HandAt(<<0, 0>>, 1, <<5, 5, 5, 5>>) >>],
                    [name |-> "erase", samples |-> << >>] >>] }

\* the samples of one class that initGestures keeps, normalised
RECURSIVE KeptSamples(_, _)
KeptSamples(samples, n) ==
  IF n = 0 THEN << >>
  ELSE LET rest == KeptSamples(samples, n - 1)
           lm   == samples[n]
       IN  IF Len(lm) < Len(F_) * 2 + 1 \/ Normalise(lm) = NullObj THEN rest
           ELSE Append(rest, Normalise(lm).v)

\* templates after initGestures has read the classes of a file
LoadTemplates(classes) ==
  [i \in 1..Len(classes) |->
     [name |-> classes[i].name,
      samples |-> KeptSamples(classes[i].samples, Len(classes[i].samples))]]

\* total of initGestures
TotalSamples(tpl) == SumTo([i \in 1..Len(tpl) |-> Len(tpl[i].samples)], Len(tpl))

\* templates and templatesLoaded when initGestures returns: untouched
\* when no file was fetched
StoreOf(data) ==
  IF data = NullObj THEN [templates |-> << >>, templatesLoaded |-> FALSE]
  ELSE [templates |-> LoadTemplates(data.classes),
        templatesLoaded |-> TotalSamples(LoadTemplates(data.classes)) > 0]

\* the stage choice on the stores and frames of this model, made once
MatchTable ==
  [st \in {StoreOf(d) : d \in GestureFiles} |->
     [lm \in HandFrames |-> MatchFrame(st.templates, st.templatesLoaded, lm)]]
MatchOf(tpl, loaded, lm) ==
  MatchTable[[templates |-> tpl, templatesLoaded |-> loaded]][lm]

\* initGestures(), once at startup; frames may have been classified before
\* it completes, none has been with the store it leaves
InitGestures ==
  /\ ~cls.init
  /\ \E data \in GestureFiles :
       \E st \in {StoreOf(data)} :
         cls' = [cls EXCEPT !.init = TRUE, !.templates = st.templates,
                            !.templatesLoaded = st.templatesLoaded,
                            !.lm = << >>, !.stage = 0]
  /\ UNCHANGED <<gvars, cvars, kvars, predObs, filtObs, solved>>

\* updateGesture(lm) of the two-stage module, with landmarks
UpdateGestureStaged ==
  \E lm \in HandFrames :
    \E m \in {MatchOf(cls.templates, cls.templatesLoaded, lm)} :
    LET matched == m.matched
        g1      == Hysteresis(GestureState, matched)
    IN  /\ candidateCount < MaxStaged
        /\ releaseCount < MaxStaged
        /\ currentGesture' = g1.cur
        /\ candidateGesture' = g1.cand
        /\ candidateCount' = g1.cc
        /\ releaseCount' = g1.rc
        /\ lastMatched' = matched
        /\ prevGesture' = currentGesture
        /\ sameRun' = IF lastMatched = matched THEN Sat(sameRun + 1) ELSE 1
        /\ pristine' = (pristine /\ lastMatched \in {"init", matched})
        /\ missRun' = IF currentGesture = NULL \/ matched = currentGesture
                      THEN 0
                      ELSE IF prevGesture = currentGesture
                           THEN Sat(missRun + 1) ELSE 1
        /\ cls' = [cls EXCEPT !.lm = lm, !.stage = m.stage]
        /\ UNCHANGED <<cvars, kvars, predObs, filtObs, solved>>

\* updateGesture(null) of the two-stage module
UpdateGestureStagedNoHand ==
  /\ UpdateGestureNoHand
  /\ cls' = [cls EXCEPT !.lm = << >>, !.stage = 0]
  /\ UNCHANGED <<cvars, kvars, predObs, filtObs, solved>>

\* the two-stage gesture module
ClassifierNext ==
  \/ InitGestures
  \/ UpdateGestureStaged
  \/ UpdateGestureStagedNoHand

\* one filter fed a constant
StaticNext ==
  \/ SeedFilter
  \/ FeedConstant
  \/ FilterResetCall

\* the solver driven directly
HomographyNext ==
  \/ Solve
  \/ ProjectPoint

\* calibration over several sessions of the page
PersistNext ==
  \/ StartCalibration
  \/ ClearCalibration
  \/ PreviewClick
  \/ InitHand
  \/ Restart

(***************************************************************************)
(* Claims on the gesture machine                                           *)
(***************************************************************************)

\* C1: from the initial state, while every frame carries landmarks with the
\* same per-frame match L, getCurrentGesture() is none after each of the
\* first CONFIRM_FRAMES-1 frames and L from the CONFIRM_FRAMES-th frame on.
C1_FastEntry ==
  (pristine /\ lastMatched # "init") =>
     /\ sameRun < CONFIRM_FRAMES => currentGesture = NULL
     /\ sameRun >= CONFIRM_FRAMES => currentGesture = lastMatched

C1_Witness ==
  /\ pristine
  /\ sameRun = CONFIRM_FRAMES
  /\ lastMatched \in Labels
  /\ currentGesture = lastMatched

\* C2: a confirmed gesture G changes on a landmark frame only when that
\* frame ends a run of at least RELEASE_FRAMES consecutive frames whose
\* match differs from G; a frame matching G keeps G and resets the release
\* counter to 0.
C2_SlowExit ==
  /\ (prevGesture # NULL /\ lastMatched \notin {"init", "nohand"}
        /\ currentGesture # prevGesture) => missRun >= RELEASE_FRAMES
  /\ (prevGesture # NULL /\ lastMatched = prevGesture) =>
        (currentGesture = prevGesture /\ releaseCount = 0)

C2_Witness ==
  /\ prevGesture \in Labels
  /\ lastMatched \in Labels
  /\ currentGesture = lastMatched
  /\ currentGesture # prevGesture
  /\ missRun >= RELEASE_FRAMES

\* C3: when updateGesture(null) returns, getCurrentGesture() is none,
\* whatever the release counter and the candidate were.
C3_LossImmediate == lastMatched = "nohand" => currentGesture = NULL

C3_Witness ==
  /\ lastMatched = "nohand"
  /\ prevGesture \in Labels
  /\ releaseCount > 0
  /\ candidateGesture \in Labels
  /\ currentGesture = NULL

(***************************************************************************)
(* Claims on the calibrator                                                *)
(***************************************************************************)

\* C4: when the four submitted points make the homography solve fail, the
\* confirmed quad, the matrix and isCalibrated() are after the attempt what
\* they were before it.
C4_DegenerateRejected ==
  [][ ( /\ calibMode
        /\ Len(calibPoints) = 3
        /\ lastOp' = "click"
        /\ clickConsumed'
        /\ HomographyOf(clicks') = NullObj )
      => ( /\ calibQuad' = calibQuad
           /\ homographyMat' = homographyMat
           /\ IsCalibrated(calibQuad') = IsCalibrated(calibQuad) ) ]_vars

\* C5: a homography matrix exists if and only if a confirmed quad exists,
\* and isCalibrated() is true exactly in that case.
C5_MatrixIffQuad ==
  /\ (homographyMat # NullObj) <=> (calibQuad # NullObj)
  /\ IsCalibrated(calibQuad) <=> (homographyMat # NullObj)

\* C6: the confirmed quad is absent or holds exactly 4 points.
C6_QuadAbsentOrFour ==
  calibQuad = NullObj \/ (calibQuad.t = "array" /\ Len(calibQuad.items) = 4)

C6_Witness ==
  /\ calibQuad # NullObj
  /\ calibMode
  /\ Len(calibPoints) = 3

\* C7: after startCalibration() the 1st, 2nd and 3rd consumed point leave the
\* machine collecting; the 4th makes the confirmed quad equal to the four
\* points in submission order, empties the in-progress list and leaves
\* collecting mode, within the handling of that click.
C7_AutoConfirmOnFourth ==
  (lastOp = "click" /\ clickConsumed) =>
     /\ Len(clicks) \in 1..4
     /\ Len(clicks) < 4 => (calibMode /\ calibPoints = clicks)
     /\ Len(clicks) = 4 =>
          (calibQuad = Arr(clicks) /\ calibPoints = <<>> /\ ~calibMode)

C7_Witness ==
  /\ lastOp = "click"
  /\ clickConsumed
  /\ Len(clicks) = 4
  /\ calibQuad = Arr(clicks)
  /\ ~calibMode

\* C8: a preview click that arrives outside collecting mode leaves the
\* in-progress list, the confirmed quad, the matrix, the mode and the slot
\* unchanged and delivers no notification.
C8_IdleClickIgnored ==
  [][ (~calibMode /\ lastOp' = "click")
      => ( /\ UNCHANGED <<calibPoints, calibQuad, homographyMat, calibMode, slot>>
           /\ notified' = <<>> ) ]_vars

C8_Witness ==
  /\ lastOp = "click"
  /\ ~clickConsumed
  /\ onCalibChange = Listener
  /\ calibQuad # NullObj
  /\ homographyMat # NullObj

\* C9 as stated: clearCalibration(), in any state, leaves no quad, no matrix,
\* collecting mode off, an empty in-progress list, the slot removed and
\* isCalibrated() false; later detections are mapped by the full-frame
\* passthrough until a calibration is confirmed.
C9_ClearRemovesSlot ==
  /\ lastOp = "clearCalibration" =>
       /\ calibQuad = NullObj
       /\ homographyMat = NullObj
       /\ ~calibMode
       /\ calibPoints = <<>>
       /\ slot = NullObj
       /\ ~IsCalibrated(calibQuad)
  /\ (sinceClear /\ lastOp = "onHandResults" /\ lastLandmarks # NullObj) =>
       lastMapMode = "passthrough"

\* C9 amended: as above, but the slot is removed when the store accepts the
\* removal; when localStorage throws, the error is swallowed and the slot is
\* left as it was.
C9_ClearResetsCalibrator ==
  /\ lastOp = "clearCalibration" =>
       /\ calibQuad = NullObj
       /\ homographyMat = NullObj
       /\ ~calibMode
       /\ calibPoints = <<>>
       /\ storageAvail => slot = NullObj
       /\ ~IsCalibrated(calibQuad)
  /\ (sinceClear /\ lastOp = "onHandResults" /\ lastLandmarks # NullObj) =>
       lastMapMode = "passthrough"

C9_Witness ==
  /\ sinceClear
  /\ lastOp = "onHandResults"
  /\ lastLandmarks # NullObj
  /\ lastMapMode = "passthrough"
  /\ lastCalOp.kind = "clear"
  /\ lastCalOp.stored
  /\ slot = NullObj

BadLoad ==
  \/ ~storageAvail
  \/ /\ slot # NullObj
     /\ \/ ~JSONparse(slot).ok
        \/ JSONparse(slot).value.t # "array"
        \/ Len(JSONparse(slot).value.items) # 4

\* C11: persistence failures never reach the interactive flow. A startup
\* load that meets an unavailable store, corrupt JSON or a value that is not
\* a 4-element array changes nothing of the calibrator (a session that was
\* uncalibrated stays in full-frame mode), notifies nobody and raises
\* nothing; a fourth click whose write fails still installs the quad and the
\* matrix solved from it, leaves collecting mode and raises nothing, the
\* slot keeping its content.
C11_PersistenceFailuresContained ==
  [][ /\ (lastOp' = "initHand" /\ BadLoad) =>
           /\ UNCHANGED <<calibQuad, homographyMat, calibPoints, calibMode, slot>>
           /\ notified' = <<>>
           /\ raised' = FALSE
           /\ calibQuad = NullObj =>
                \A tip \in TipPoints :
                  MapDetection(calibQuad', homographyMat', tip.x, tip.y).mode
                    = "passthrough"
      /\ (lastOp' = "click" /\ calibMode /\ Len(calibPoints) = 3
             /\ ~lastCalOp'.stored) =>
           /\ calibQuad' = Arr(clicks')
           /\ homographyMat' = HomographyOf(clicks')
           /\ calibMode' = FALSE
           /\ calibPoints' = <<>>
           /\ slot' = slot
           /\ raised' = FALSE ]_vars

\* a session whose startup load met corrupt JSON and whose confirmation
\* then met a failing write
C11_Witness ==
  /\ lastOp = "click"
  /\ calibQuad # NullObj
  /\ lastCalOp = [kind |-> "confirm", quad |-> calibQuad.items,
                  stored |-> FALSE, sess |-> "cur"]
  /\ cursorEl # NullObj
  /\ storageAvail
  /\ slot # NullObj
  /\ ~JSONparse(slot).ok
  /\ homographyMat # NullObj
  /\ raised = FALSE

\* C12: the slot is written only by a successful calibration: whenever it
\* holds a 4-point quad, that quad solves to a matrix, so a degenerate
\* calibration is never stored.
C12_SlotHoldsSolvableQuad ==
  (slot # NullObj /\ JSONparse(slot).ok /\ JSONparse(slot).value.t = "array"
     /\ Len(JSONparse(slot).value.items) = 4)
    => HomographyOf(JSONparse(slot).value.items) # NullObj

\* C13: a detection callback without a hand leaves both filters reset, the
\* predictor at zero velocity, inactive and with base time zero, and the
\* cursor inactive; the first detection after it (as the first of the
\* session) returns the raw mapped position as the filtered one and leaves
\* the velocity at zero.
C13_LossResetsSmoothing ==
  lastOp = "onHandResults" =>
    /\ lastLandmarks = NullObj =>
         /\ filterX = NewFilter
         /\ filterY = NewFilter
         /\ pred.velX = RZero /\ pred.velY = RZero
         /\ ~pred.active
         /\ pred.baseT = 0
         /\ ~cursorActive
    /\ (lastLandmarks # NullObj /\ lastDet.first) =>
         /\ lastDet.sx = lastDet.rawX
         /\ lastDet.sy = lastDet.rawY
         /\ pred.velX = RZero /\ pred.velY = RZero

\* the hand is found again after a gap that followed a moving cursor
C13_Witness ==
  /\ lastOp = "onHandResults"
  /\ lastLandmarks # NullObj
  /\ lastDet.first
  /\ movedBefore
  /\ pred.active

\* whether v lies in [-0.04, 1.04]; no comparison holds for NaN
WithinMargin(v) ==
  IsFinite(v) /\ RLe(R(-4, 100), v) /\ RLe(v, R(104, 100))

\* C14: after every detection callback the cursor is inactive if the frame
\* has no hand, or if a quad and its matrix are installed and the projected
\* tip is outside [-0.04, 1.04] on either axis (1.03 is inside, 1.05 is
\* outside); it is active in every other case, always so for a detected
\* hand without a homography.
C14_ActiveAfterDetection ==
  lastOp = "onHandResults" =>
    IF lastLandmarks = NullObj THEN ~cursorActive
    ELSE IF calibQuad = NullObj \/ homographyMat = NullObj THEN cursorActive
    ELSE \E p \in {Project(homographyMat, lastLandmarks.x, lastLandmarks.y)} :
           /\ cursorActive = (WithinMargin(p.x) /\ WithinMargin(p.y))
           /\ (p.x = R(103, 100) /\ WithinMargin(p.y)) => cursorActive
           /\ p.x = R(105, 100) => ~cursorActive

\* a calibrated detection whose projection is at nx_raw = 1.03
C14_Witness ==
  /\ lastOp = "onHandResults"
  /\ lastLandmarks # NullObj
  /\ calibQuad # NullObj
  /\ homographyMat # NullObj
  /\ Project(homographyMat, lastLandmarks.x, lastLandmarks.y).x = R(103, 100)
  /\ cursorActive

\* a number of [0, 1]
InUnit(v) == IsFinite(v) /\ RLe(RZero, v) /\ RLe(v, ROne)

\* C15: with landmarks in [0, 1], the x and y of getHandCursorState() lie
\* in [0, 1] in every reachable state.
C15_CursorInUnitSquare ==
  InUnit(GetHandCursorState.x) /\ InUnit(GetHandCursorState.y)

\* C16: the record returned by getHandCursorState() carries a gesture field
\* whose value is the confirmed gesture, getCurrentGesture(), so that the
\* paint engine reads the confirmed label from it.
C16_StateCarriesGesture ==
  /\ "gesture" \in DOMAIN GetHandCursorState
  /\ GestureOf(GetHandCursorState) = currentGesture

\* C17: getPredictedPosition() before any updatePrediction() returns the
\* initial base (0.5, 0.5); after resetPrediction() and before the next
\* update it returns the position of the latest update unchanged, whatever
\* the current time.
C17_InactivePredictorHolds ==
  predObs.op = "predict" =>
    /\ ~predObs.updated => predObs.out = [x |-> R(1, 2), y |-> R(1, 2)]
    /\ (~predObs.updated \/ predObs.sinceReset) =>
         predObs.out = predObs.lastBase

\* a prediction asked 300 ms after an update that measured a velocity, with
\* a reset in between
C17_Witness ==
  /\ predObs.op = "predict"
  /\ predObs.updated
  /\ predObs.sinceReset
  /\ predObs.lastBase.x = Fx(R(3, 10))
  /\ now = 1304

\* C18: after updates more than 5 ms apart in which x rose and none in which
\* it fell, a prediction returns x no smaller than the last base x and no
\* larger than 1; every prediction lies in [0, 1] on both axes.
C18_PredictionForwardAndClamped ==
  predObs.op = "predict" =>
    /\ InUnit(predObs.out.x) /\ InUnit(predObs.out.y)
    /\ (predObs.rose /\ ~predObs.fell /\ ~predObs.sinceReset) =>
         /\ RLe(predObs.lastBase.x, predObs.out.x)
         /\ RLe(predObs.out.x, ROne)

\* C19: the first filter(x, t) after the construction or after a reset()
\* returns exactly x, whatever was filtered before; reset() on a filter
\* that has never filtered leaves it as constructed.
C19_FirstCallIdentity ==
  /\ (filtObs.op = "filter" /\ filtObs.first) => filtObs.out = filtObs.arg
  /\ (filtObs.op = "reset" /\ ~filtObs.ever) => filterX = NewFilter

\* the first call after a reset of a filter that had filtered before
C19_Witness ==
  /\ filtObs.op = "filter"
  /\ filtObs.first
  /\ filtObs.again
  /\ filtObs.arg = ROne
  /\ now = 1104

\* twice the signed area of the triangle a, b, c
Cross(a, b, c) ==
  RSub(RMul(RSub(b.x, a.x), RSub(c.y, a.y)),
       RMul(RSub(b.y, a.y), RSub(c.x, a.x)))

\* no three of the four points on one line
NonDegenerate(q) ==
  \A i, j, k \in 1..4 :
    (i < j /\ j < k) => Cross(q[i], q[j], q[k]) # RZero

UnitSquare == <<Pt(0, 1, 0, 1), Pt(1, 1, 0, 1), Pt(1, 1, 1, 1), Pt(0, 1, 1, 1)>>

C22_NotificationTellsState ==
  /\ Len(notified) <= 2
  /\ notified # <<>> => onCalibChange = Listener
  /\ \A i \in 1..Len(notified) :
       /\ notified[i].phase \in {"idle", "collecting", "done"}
       /\ notified[i].pointsCollected \in 0..4
  /\ notified # <<>> =>
       \E n \in {notified[Len(notified)]} :
         /\ n.phase = "collecting" <=> calibMode
         /\ n.phase = "collecting" => n.pointsCollected = Len(clicks)
         /\ n.phase = "done" <=> (~calibMode /\ calibQuad # NullObj)
         /\ n.phase = "done" => n.pointsCollected = 4
         /\ n.phase = "idle" => n.pointsCollected = 0
  /\ Len(notified) = 2 =>
       /\ lastOp = "click"
       /\ Len(clicks) = 4
       /\ notified[1] = [phase |-> "collecting", pointsCollected |-> 4]
       /\ notified[2] = [phase |-> "done", pointsCollected |-> 4]

\* the listener was told of the 4th point and then of the confirmed quad
C22_Witness ==
  /\ Len(notified) = 2
  /\ notified[2].phase = "done"
  /\ calibQuad # NullObj
  /\ ~calibMode

\* C23: while no gesture is confirmed, a label becomes confirmed only on a
\* landmark frame that ends a run of at least CONFIRM_FRAMES consecutive
\* landmark frames matching that label, the run starting after the gesture
\* became none (a frame without landmarks starts the count afresh).
C23_ConfirmNeedsFreshRun ==
  [][ (currentGesture = NULL /\ currentGesture' # NULL)
      => ( /\ lastMatched' = currentGesture'
           /\ sameRun' >= CONFIRM_FRAMES ) ]_vars

\* C24: on a landmark frame a confirmed gesture drops to none only if the
\* per-frame match was none on each of the RELEASE_FRAMES consecutive frames
\* that end with the frame of the drop.
C24_DropNeedsNoneWindow ==
  [][ ( /\ currentGesture # NULL
        /\ currentGesture' = NULL
        /\ lastMatched' \notin {"nohand", "init"} )
      => ( /\ lastMatched' = NULL
           /\ sameRun' >= RELEASE_FRAMES ) ]_vars

\* C25: on a landmark frame a confirmed gesture G is replaced by another
\* label L only if at least RELEASE_FRAMES consecutive frames have mismatched
\* G and the last CONFIRM_FRAMES frames or more, this one included, all
\* matched L; the release counter is 0 after the switch.
C25_SwitchNeedsBothWindows ==
  [][ ( /\ currentGesture # NULL
        /\ currentGesture' \notin {NULL, currentGesture} )
      => ( /\ missRun' >= RELEASE_FRAMES
           /\ lastMatched' = currentGesture'
           /\ sameRun' >= CONFIRM_FRAMES
           /\ releaseCount' = 0 ) ]_vars

\* a switch made right when the release window expired, after frames of a
\* third kind early in the window
C25_Witness ==
  /\ prevGesture \in Labels
  /\ currentGesture \in Labels \ {prevGesture}
  /\ lastMatched = currentGesture
  /\ releaseCount = 0
  /\ missRun = RELEASE_FRAMES
  /\ sameRun < RELEASE_FRAMES
  /\ sameRun >= CONFIRM_FRAMES

\* C26: when the geometry stage gives the per-frame match, the match is the
\* first rule that applies of: all four ratios above EXTENDED, 'erase';
\* index and middle above EXTENDED with ring and pinky below CURLED, 'draw';
\* index above EXTENDED with middle, ring and pinky below CURLED, 'pointing';
\* otherwise none. EXTENDED < CURLED, a ratio between them is above the one
\* and below the other, and a finger whose knuckle is on the wrist has ratio
\* 0: it is not extended and it is curled.
C26_GeometryDecisionList ==
  cls.stage = 2 =>
    LET mcp2(i) == Dist2(cls.lm[2 * i], cls.lm[1])
        tip2(i) == Dist2(cls.lm[2 * i + 1], cls.lm[1])
        ext(i)  == mcp2(i) > 0 /\ tip2(i) * 10000 > EXTENDED * EXTENDED * mcp2(i)
        crl(i)  == mcp2(i) = 0 \/ tip2(i) * 10000 < CURLED * CURLED * mcp2(i)
    IN  /\ EXTENDED < CURLED
        /\ lastMatched \in Labels \cup {NULL}
        /\ lastMatched =
             ( IF ext(1) /\ ext(2) /\ ext(3) /\ ext(4) THEN "erase"
               ELSE IF ext(1) /\ ext(2) /\ crl(3) /\ crl(4) THEN "draw"
               ELSE IF ext(1) /\ crl(2) /\ crl(3) /\ crl(4) THEN "pointing"
               ELSE NULL )
        /\ mcp2(1) = 0 => lastMatched = NULL
        /\ \A i \in 2..4 : mcp2(i) = 0 => lastMatched # "erase"

\* the geometry stage called a frame whose middle knuckle is on the wrist
\* (ratio 0) 'pointing', with templates loaded
C26_Witness ==
  /\ cls.stage = 2
  /\ cls.templatesLoaded
  /\ lastMatched = "pointing"
  /\ Dist2(cls.lm[MiddleMcp], cls.lm[1]) = 0
  /\ currentGesture = "pointing"

\* C27: on a landmark frame the per-frame match comes from the template
\* stage exactly when templates are loaded (some class holds a sample), the
\* frame normalises (its wrist and middle MCP differ) and some class scores
\* above MATCH_THRESHOLD; it is then a class no other class outscores. In
\* every other case the match is what the geometry stage gives.
C27_StageSelection ==
  cls.lm # << >> =>
    LET tpl     == cls.templates
        usable  == cls.templatesLoaded /\ Dist2(cls.lm[MiddleMcp], cls.lm[1]) > 0
        vec     == Normalise(cls.lm).v
        sc(i)   == BestScore(vec, tpl[i].samples, Len(tpl[i].samples))
        over(i) == ScoreGt(sc(i), MATCH_THRESHOLD(Dot(vec, vec)))
    IN  /\ cls.stage \in {1, 2}
        /\ cls.templatesLoaded <=> \E i \in 1..Len(tpl) : tpl[i].samples # << >>
        /\ cls.stage = 1 <=> (usable /\ \E i \in 1..Len(tpl) : over(i))
        /\ cls.stage = 1 =>
             \E i \in 1..Len(tpl) :
               /\ lastMatched = tpl[i].name
               /\ over(i)
               /\ \A j \in 1..Len(tpl) : ~ScoreGt(sc(j), sc(i))
        /\ cls.stage = 2 => lastMatched = GeometryOfFrame(cls.lm)

\* the template stage named a frame after a class the geometry stage does
\* not know, and the hysteresis confirmed it
C27_Witness ==
  /\ cls.lm # << >>
  /\ cls.stage = 1
  /\ lastMatched = "fist"
  /\ GeometryOfFrame(cls.lm) = "erase"
  /\ currentGesture = "fist"

\* C28: startCalibration() empties the in-progress list and enters
\* collecting mode, in the middle of a collection too; it and each of the
\* first three points submitted leave the confirmed quad, its matrix and the
\* persisted slot as they are, and a detection in between is mapped with
\* them; the 4th point installs the new quad and its matrix and ends the
\* collection in the same step.
C28_RecalibrationKeepsOldQuad ==
  [][ /\ lastOp' = "startCalibration" =>
           /\ calibPoints' = << >>
           /\ calibMode'
           /\ calibQuad' = calibQuad
           /\ homographyMat' = homographyMat
           /\ slot' = slot
      /\ (lastOp' = "click" /\ calibMode /\ Len(calibPoints) < 3) =>
           /\ calibPoints' = Append(calibPoints, clicks'[Len(clicks')])
           /\ calibMode'
           /\ calibQuad' = calibQuad
           /\ homographyMat' = homographyMat
           /\ slot' = slot
      /\ (lastOp' = "click" /\ calibMode /\ Len(calibPoints) = 3) =>
           /\ calibQuad' = Arr(clicks')
           /\ homographyMat' = HomographyOf(clicks')
           /\ ~calibMode'
           /\ calibPoints' = << >>
      /\ (lastOp' = "onHandResults" /\ lastLandmarks' # NullObj /\ calibMode) =>
           /\ calibQuad' = calibQuad
           /\ homographyMat' = homographyMat
           /\ (calibQuad # NullObj /\ homographyMat # NullObj)
                => lastMapMode' = "homography"
           /\ (calibQuad = NullObj \/ homographyMat = NullObj)
                => lastMapMode' = "passthrough" ]_vars

\* three points of a recalibration are in and a detection has just been
\* mapped with the quad confirmed before it started
C28_Witness ==
  /\ calibMode
  /\ Len(calibPoints) = 3
  /\ calibQuad # NullObj
  /\ homographyMat # NullObj
  /\ lastCalOp.kind = "confirm"
  /\ calibQuad = Arr(lastCalOp.quad)
  /\ lastOp = "onHandResults"
  /\ lastMapMode = "homography"

\* C29: an animation tick leaves the filters, the predictor and the active
\* flag as they are; it changes the reported position only while the cursor
\* and the predictor are active, and then to a position in [0, 1] on both
\* axes, within |smoothed velocity| * (0.15 s + PREDICT_MS) of the base on
\* each axis, which from 150 ms after the last detection on is the one
\* position base + velocity * (0.15 s + PREDICT_MS), clamped, whatever the
\* time.
C29_TicksOnlyExtrapolate ==
  [][ lastOp' = "tickHand" =>
        /\ filterX' = filterX
        /\ filterY' = filterY
        /\ pred' = pred
        /\ cursorActive' = cursorActive
        /\ cursorNorm' # cursorNorm => (cursorActive /\ pred.active)
        /\ (cursorActive /\ pred.active /\ cursorEl # NullObj) =>
             /\ InUnit(cursorNorm'.x) /\ InUnit(cursorNorm'.y)
             /\ RLe(RAbs(RSub(cursorNorm'.x, pred.baseX)),
                    RAdd(RMul(RAbs(pred.velX), R(150 + PREDICT_MS, 1000)),
                         R(1, 2 * Quantum)))
             /\ RLe(RAbs(RSub(cursorNorm'.y, pred.baseY)),
                    RAdd(RMul(RAbs(pred.velY), R(150 + PREDICT_MS, 1000)),
                         R(1, 2 * Quantum)))
             /\ now - pred.baseT >= 150 =>
                  cursorNorm' =
                    [x |-> clamp01(Fx(RAdd(pred.baseX,
                             RMul(pred.velX, R(150 + PREDICT_MS, 1000))))),
                     y |-> clamp01(Fx(RAdd(pred.baseY,
                             RMul(pred.velY, R(150 + PREDICT_MS, 1000)))))] ]_vars

\* C30: if from some frame on every frame carries landmarks and none
\* matches the confirmed gesture G, then the confirmed gesture eventually is
\* not G any more, whatever the mismatching frames match.
C30_ReleaseHonoured ==
  \A G \in Labels :
    []( ( /\ currentGesture = G
          /\ [](lastMatched \in (Labels \cup {NULL}) \ {G}) )
        => <>(currentGesture # G) )

Init == GestureInit /\ CalibInit /\ CursorInit

GestureNext ==
  \/ UpdateGestureNoHand /\ UNCHANGED <<cvars, kvars, uvars>>
  \/ UpdateGesture /\ UNCHANGED <<cvars, kvars, uvars>>
  \/ ClearGesture /\ UNCHANGED <<cvars, kvars, uvars>>

\* the gesture machine alone
GestureSpec == Init /\ [][GestureNext]_vars

\* one session of the calibrator, with its store and the detections
CalibSpec == Init /\ [][CalibNext]_vars

\* the calibrator and its store over several sessions
PersistSpec == Init /\ [][PersistNext]_vars

\* the cursor pipeline, started on a slot an earlier session may have left
\* in a usable store
CursorStart ==
  GestureInit /\ CalibStart(CursorSlots) /\ storageAvail /\ CursorInit
CursorSpec == CursorStart /\ [][CursorNext]_vars

\* one component driven directly, in a session that starts on an empty slot
UnitStart ==
  GestureInit /\ CalibStart({NullObj}) /\ storageAvail /\ CursorInit
PredictorSpec == UnitStart /\ [][PredictorNext]_vars
FilterSpec == UnitStart /\ [][FilterNext]_vars
HomographySpec == UnitStart /\ [][HomographyNext]_vars
StaticSpec == UnitStart /\ [][StaticNext]_vars

\* the gesture machine on a stream of frames that does not end: the camera
\* loop keeps calling updateGesture
GestureLiveNext ==
  \/ UpdateGestureNoHand /\ UNCHANGED <<cvars, kvars, uvars>>
  \/ UpdateGestureForever /\ UNCHANGED <<cvars, kvars, uvars>>
GestureLiveSpec ==
  /\ UnitStart
  /\ [][GestureLiveNext]_vars
  /\ WF_vars(UpdateGestureForever /\ UNCHANGED <<cvars, kvars, uvars>>)
ClassifierSpec == UnitStart /\ [][ClassifierNext]_vars

====
